---- MODULE Spec2Model ----
(***************************************************************************)
(* State-machine model of the IPTV player: the App component (playlist,    *)
(* channel list, current channel, navigation, failover) and the            *)
(* VideoPlayer component (backend selection, adapter lifecycle, fatal      *)
(* verdicts, the delayed channel-failed callback).                         *)
(*                                                                         *)
(* One action models one event handler together with the React re-render   *)
(* and effect flush it causes: effect cleanups of every effect whose       *)
(* dependency list changed, then the effect bodies, in declaration order.  *)
(***************************************************************************)
EXTENDS Integers, Sequences, FiniteSets, TLC

(* ------------------------------ bounds --------------------------------- *)

\* Number of channels in the loaded playlist.
NumChannels == 4

\* Number of HLS recovery calls counted on one adapter instance.
MaxRecoveries == 2

(* ------------------------- program constants --------------------------- *)

\* window.setTimeout(..., 2500) in the isRemoving effect.
FatalDelayMs == 2500

\* Granularity of the model's clock.
TickMs == FatalDelayMs

NoChannel == 0
NoError == "null"

Min(S) == CHOOSE x \in S : \A y \in S : x <= y
Max(S) == CHOOSE x \in S : \A y \in S : x >= y

(* ------------------------------ strings -------------------------------- *)
\* A string is a sequence of one-character strings.

LowerChar(c) ==
    CASE c = "M" -> "m"
      [] c = "P" -> "p"
      [] c = "D" -> "d"
      [] c = "T" -> "t"
      [] c = "S" -> "s"
      [] c = "F" -> "f"
      [] c = "L" -> "l"
      [] c = "V" -> "v"
      [] c = "U" -> "u"
      [] OTHER -> c

ToLowerCase(s) == [i \in 1..Len(s) |-> LowerChar(s[i])]

RECURSIVE TrimStart(_)
TrimStart(s) == IF s # <<>> /\ Head(s) = " " THEN TrimStart(Tail(s)) ELSE s

RECURSIVE TrimEnd(_)
TrimEnd(s) ==
    IF s # <<>> /\ s[Len(s)] = " " THEN TrimEnd(SubSeq(s, 1, Len(s) - 1)) ELSE s

Trim(s) == TrimEnd(TrimStart(s))

\* s.split(sep)[0]
SplitHead(s, sep) ==
    LET hits == {i \in 1..Len(s) : s[i] = sep}
    IN  IF hits = {} THEN s ELSE SubSeq(s, 1, Min(hits) - 1)

EndsWith(s, suffix) ==
    /\ Len(s) >= Len(suffix)
    /\ SubSeq(s, Len(s) - Len(suffix) + 1, Len(s)) = suffix

(* ------------------------------ playlist ------------------------------- *)

DashUrl == <<"a", ".", "M", "P", "D", "?", "k">>
PlainUrl == <<"b">>
TsUrl == <<"c", ".", "t", "s">>
HlsUrl == <<"d", ".", "m", "3", "u", "8">>

\* Channel records of the loaded playlist: channels 1 and 2 are two entries
\* with the same stream URL.
ChannelUrl(c) ==
    CASE c = 1 -> DashUrl
      [] c = 2 -> DashUrl
      [] c = 3 -> HlsUrl
      [] c = 4 -> TsUrl
      [] OTHER -> PlainUrl

ChannelGroup(c) == IF c \in {1, 2} THEN "A" ELSE "B"

ChannelIds == 1..NumChannels

AllChannels == [i \in 1..NumChannels |-> i]

(* ------------------------- protocol classifier ------------------------- *)

\* env: [mse |-> mpegts.getFeatureList().mseLivePlayback,
\*       hls |-> Hls.isSupported(),
\*       nativeHls |-> video.canPlayType('application/vnd.apple.mpegurl') # ""]
Envs == [mse : BOOLEAN, hls : BOOLEAN, nativeHls : BOOLEAN]

\* The environments the player is run in: every engine available, and no
\* engine but DASH available.
PlayerEnvs ==
    {[mse |-> TRUE, hls |-> TRUE, nativeHls |-> FALSE],
     [mse |-> FALSE, hls |-> FALSE, nativeHls |-> TRUE]}

\* Faulty variant of cleanUrl: the letter case is kept.
CleanUrlKeepingCase(url) == SplitHead(Trim(url), "?")

CleanUrl(url) == ToLowerCase(SplitHead(Trim(url), "?"))

IsDash(url) == EndsWith(CleanUrl(url), <<".", "m", "p", "d">>)
IsFlv(url) == EndsWith(CleanUrl(url), <<".", "f", "l", "v">>)
IsTs(url) == EndsWith(CleanUrl(url), <<".", "t", "s">>)
IsM3u8(url) == EndsWith(CleanUrl(url), <<".", "m", "3", "u", "8">>)

\* Faulty variant of the branch order: the HLS branch is tried before the
\* MPEGTS branch and takes every URL that is not .mpd.
ClassifyHlsFirst(url, e) ==
    IF IsDash(url) THEN "DASH"
    ELSE IF e.hls /\ (IsM3u8(url) \/ ~e.nativeHls) THEN "HLS"
    ELSE IF (IsFlv(url) \/ IsTs(url)) /\ e.mse THEN "MPEG_TS_FLV"
    ELSE "NATIVE"

Classify(url, e) ==
    IF IsDash(url) THEN "DASH"
    ELSE IF (IsFlv(url) \/ IsTs(url)) /\ e.mse THEN "MPEG_TS_FLV"
    ELSE IF e.hls /\ (IsM3u8(url)
                      \/ (~IsDash(url) /\ ~IsFlv(url) /\ ~IsTs(url) /\ ~e.nativeHls))
         THEN "HLS"
    ELSE "NATIVE"

\* The backend each channel of the playlist gets in each environment, and
\* the pairs of channels with equal URLs (channel.url compared by the
\* dependency list of the setup effect).
ProtocolOf ==
    [e \in PlayerEnvs |-> [c \in ChannelIds |-> Classify(ChannelUrl(c), e)]]

SameUrl ==
    [a \in ChannelIds |-> [b \in ChannelIds |-> ChannelUrl(a) = ChannelUrl(b)]]

(* ------------------------------- state --------------------------------- *)

VARIABLES
    \* App component
    appState,          \* "SETUP" | "BROWSING" | "PLAYING"
    channels,          \* the channel list, a sequence of channel ids
    categories,        \* the category list, a sequence of names
    selectedCategory,  \* "all" or a group name
    currentChannel,    \* a channel id or NoChannel (null)
    \* host environment capability flags
    env,
    \* VideoPlayer component
    hlsRef,            \* the engine instance held by hlsRef.current, or NoInst
    dashRef,           \* the engine instance held by dashRef.current, or NoInst
    mpegtsRef,         \* the engine instance held by mpegtsRef.current, or NoInst
    error,             \* recorded fatal reason, or NoError
    isRemoving,        \* pending-removal flag
    isPlaying,         \* playing flag
    timer,             \* the setTimeout armed by the isRemoving effect
    keyNav,            \* what the onNextChannel/onPrevChannel closures held by
                       \* handleKeyDown select (NoChannel: they return early)
    \* media element and backend engines
    videoSrc,          \* the element's src attribute is set (native source)
    videoOnError,      \* video.onerror is installed
    leaked,            \* an engine instance is alive that no handle refers to
    \* observation of the last step
    ops,               \* adapter/media operations performed, in program order
    callback,          \* onChannelError invocation made, if any
    \* history
    emitted,           \* onChannelError invocations since the current channel
                       \* became current
    \* one evaluation of the URL tests and the backend selection
    urlProbe,          \* the channel.url under test and how it was built
    protocol,          \* the branch taken for it, "none" before the evaluation
    \* one run of parseM3U
    parser,            \* its input lines, forEach position, locals and result
    \* one run of checkHealth
    video,             \* the readings of the media element it samples
    metrics,           \* the health reading
    \* VideoPlayer volume state, in hundredths of the full volume
    volume,
    isMuted

appVars == <<appState, channels, categories, selectedCategory, currentChannel>>
playerVars == <<hlsRef, dashRef, mpegtsRef, error, isRemoving, isPlaying>>
mediaVars == <<videoSrc, videoOnError, leaked>>
sessionVars == <<appVars, playerVars, timer, keyNav, mediaVars, ops, callback,
                 emitted>>
classifyVars == <<urlProbe, protocol>>
parseVars == <<parser>>
healthVars == <<video, metrics>>
audioVars == <<volume, isMuted>>
unitVars == <<classifyVars, parseVars, healthVars, audioVars>>
vars == <<sessionVars, env, unitVars>>

\* An engine instance: st is "attached" from attach to destroy, recov counts
\* the recovery calls made on it. NoInst is the null handle.
NoInst == [st |-> "none", recov |-> 0]
NewInst == [st |-> "attached", recov |-> 0]

Disarmed == [armed |-> FALSE, id |-> NoChannel, left |-> 0]
Armed(c) == [armed |-> TRUE, id |-> c, left |-> FatalDelayMs]
\* id: the argument; nth: which invocation of the session it is; reason: the
\* fatal reason recorded when it was made
NoCallback == [id |-> NoChannel, nth |-> 0, reason |-> NoError]
NoKeyNav == [next |-> NoChannel, prev |-> NoChannel]

\* volume 1.0, the step of the ArrowUp/ArrowDown keys (0.1) and the step of
\* the volume slider (0.05), in hundredths
VolumeOne == 100
KeyStep == 10
SliderStep == 5

\* useState initial value of metrics
InitialMetrics ==
    [status |-> "buffering", bufferLead |-> 0, color |-> "text-yellow-400"]

\* How far the try block of the setup effect gets: to its end, to a throw
\* before any engine is constructed, or (in an engine branch) to a throw
\* after the engine is constructed and attached but before its handle is
\* recorded.
SetupOutcomes(proto) ==
    IF proto = "NATIVE" THEN {"ok", "throwBefore"}
    ELSE {"ok", "throwBefore", "throwAfter"}

(* --------------------------- App: derived data ------------------------- *)

\* filteredChannels (search term and favorites filter left at their defaults)
FilterChannels(chs, cat) ==
    SelectSeq(chs, LAMBDA c : cat = "all" \/ ChannelGroup(c) = cat)

FilteredChannels == FilterChannels(channels, selectedCategory)

\* Array.prototype.findIndex on ids, 1-based; 0 stands for -1
FindIndex(list, c) ==
    LET hits == {i \in 1..Len(list) : list[i] = c}
    IN  IF hits = {} THEN 0 ELSE Min(hits)

\* getCurrentChannelIndex
GetCurrentChannelIndex(cur, list) ==
    IF cur = NoChannel THEN 0 ELSE FindIndex(list, cur)

\* Faulty variant of the successor index: no wrap from the last to the first.
NextIndexNoWrap(idx, len) == IF idx = len THEN len ELSE idx + 1

\* (index + 1) % length, on 1-based indices
NextIndex(idx, len) == (idx % len) + 1

\* (index - 1 + length) % length, on 1-based indices
PrevIndex(idx, len) == ((idx - 2 + len) % len) + 1

\* The channel the VideoPlayer is mounted with, NoChannel when it is not.
MountedChannel(st, cur) == IF st = "PLAYING" THEN cur ELSE NoChannel

Mounted == MountedChannel(appState, currentChannel) # NoChannel

(* ---------------------- VideoPlayer: sequential code ------------------- *)
\* The imperative code of a handler is a composition of operators on a
\* record w of the fields it reads and writes.

World ==
    [hlsRef |-> hlsRef, dashRef |-> dashRef, mpegtsRef |-> mpegtsRef,
     error |-> error, isRemoving |-> isRemoving, isPlaying |-> isPlaying,
     videoSrc |-> videoSrc, videoOnError |-> videoOnError,
     leaked |-> leaked, ops |-> <<>>]

\* An operation on the engine held by a handle ("hls", "dash", "mpegts") or
\* on the media element ("video") or the pending timeout ("timer"); live: the
\* target was alive at the call.
Op(name, target, live) == [op |-> name, on |-> target, live |-> live]

Log(w, name, target, live) == [w EXCEPT !.ops = Append(@, Op(name, target, live))]

\* Faulty variant of destroyPlayers: the mpegts handle is forgotten.
DestroyPlayersSkipMpegts(w, hasVideo) ==
    LET w1 == IF w.hlsRef # NoInst
              THEN [Log(w, "destroy", "hls", w.hlsRef.st = "attached")
                       EXCEPT !.hlsRef = NoInst]
              ELSE w
        w2 == IF w1.dashRef # NoInst
              THEN [Log(w1, "destroy", "dash", w1.dashRef.st = "attached")
                       EXCEPT !.dashRef = NoInst]
              ELSE w1
    IN  IF hasVideo
        THEN Log([w2 EXCEPT !.videoSrc = FALSE], "clearSrc", "video", TRUE)
        ELSE w2

\* Faulty variant of destroyPlayers: the engines are destroyed but the
\* handles keep referring to them.
DestroyPlayersKeepRefs(w, hasVideo) ==
    LET dead == [st |-> "destroyed", recov |-> 0]
        w1 == IF w.hlsRef # NoInst
              THEN [Log(w, "destroy", "hls", w.hlsRef.st = "attached")
                       EXCEPT !.hlsRef = dead]
              ELSE w
        w2 == IF w1.dashRef # NoInst
              THEN [Log(w1, "destroy", "dash", w1.dashRef.st = "attached")
                       EXCEPT !.dashRef = dead]
              ELSE w1
        w3 == IF w2.mpegtsRef # NoInst
              THEN [Log(w2, "destroy", "mpegts", w2.mpegtsRef.st = "attached")
                       EXCEPT !.mpegtsRef = dead]
              ELSE w2
    IN  IF hasVideo
        THEN Log([w3 EXCEPT !.videoSrc = FALSE], "clearSrc", "video", TRUE)
        ELSE w3

\* Clean up all players. hasVideo: videoRef.current is set.
DestroyPlayers(w, hasVideo) ==
    LET w1 == IF w.hlsRef # NoInst
              THEN [Log(w, "destroy", "hls", w.hlsRef.st = "attached")
                       EXCEPT !.hlsRef = NoInst]
              ELSE w
        w2 == IF w1.dashRef # NoInst
              THEN [Log(w1, "destroy", "dash", w1.dashRef.st = "attached")
                       EXCEPT !.dashRef = NoInst]
              ELSE w1
        w3 == IF w2.mpegtsRef # NoInst
              THEN [Log(w2, "destroy", "mpegts", w2.mpegtsRef.st = "attached")
                       EXCEPT !.mpegtsRef = NoInst]
              ELSE w2
    IN  IF hasVideo
        THEN Log([w3 EXCEPT !.videoSrc = FALSE], "clearSrc", "video", TRUE)
        ELSE w3

HandleFatalError(w, msg) == [w EXCEPT !.error = msg, !.isRemoving = TRUE]

\* Faulty variant of the catch block: the reason is shown but the session is
\* not put in pending removal.
SetupCatchShowsOnly(w) == [w EXCEPT !.error = "Player Setup Failed"]

\* the catch block of the setup effect
SetupCatch(w) == HandleFatalError(w, "Player Setup Failed")

RecordRef(w, kind, inst) ==
    CASE kind = "dash" -> [w EXCEPT !.dashRef = inst]
      [] kind = "mpegts" -> [w EXCEPT !.mpegtsRef = inst]
      [] kind = "hls" -> [w EXCEPT !.hlsRef = inst]

\* One engine branch of the try block: construct, configure and attach the
\* engine, register its error handler, record the handle.
EngineBranch(w, kind, outcome) ==
    IF outcome = "throwBefore" THEN SetupCatch(w)
    ELSE LET a == Log(Log(w, "construct", kind, TRUE), "attach", kind, TRUE)
         IN  IF outcome = "throwAfter"
             THEN SetupCatch([a EXCEPT !.leaked = TRUE])
             ELSE RecordRef(a, kind, NewInst)

\* The native branch: video.src = url; video.load(); safePlay(video);
\* video.onerror = ... None of these statements throws.
NativeBranch(w, outcome) ==
    IF outcome = "throwBefore" THEN SetupCatch(w)
    ELSE [Log([w EXCEPT !.videoSrc = TRUE], "setSrc", "video", TRUE)
             EXCEPT !.videoOnError = TRUE]

SetupBackend(w, proto, outcome) ==
    CASE proto = "DASH" -> EngineBranch(w, "dash", outcome)
      [] proto = "MPEG_TS_FLV" -> EngineBranch(w, "mpegts", outcome)
      [] proto = "HLS" -> EngineBranch(w, "hls", outcome)
      [] OTHER -> NativeBranch(w, outcome)

\* Body of the player setup effect for channel c.
SetupEffect(w, c, e, outcome) ==
    LET r == [w EXCEPT !.error = NoError, !.isRemoving = FALSE]
    IN  SetupBackend(DestroyPlayers(r, TRUE), ProtocolOf[e][c], outcome)

\* Faulty variant of the re-run: the new backend is set up with no teardown.
RerunWithoutTeardown(w, c, e, outcome) ==
    SetupBackend([w EXCEPT !.error = NoError, !.isRemoving = FALSE],
                 ProtocolOf[e][c], outcome)

\* The setup effect re-runs: its cleanup, then its body.
RerunSetupEffect(w, c, e, outcome) ==
    SetupEffect(DestroyPlayers(w, TRUE), c, e, outcome)

\* The component instance is discarded at unmount: a later mount starts from
\* fresh state and a fresh media element. Leaked engines live on.
FreshPlayer(w) ==
    [w EXCEPT !.hlsRef = NoInst, !.dashRef = NoInst, !.mpegtsRef = NoInst,
              !.error = NoError, !.isRemoving = FALSE, !.isPlaying = TRUE,
              !.videoSrc = FALSE, !.videoOnError = FALSE]

\* The setup effect body runs in a render that takes the channel prop from
\* old to new (NoChannel: not mounted): its dependency list is [channel.url].
SetupRuns(old, new) ==
    /\ new # NoChannel
    /\ old # new
    /\ old = NoChannel \/ ~SameUrl[old][new]

\* The setup effect across that render.
SetupEffectOnRender(w, old, new, e, outcome, hasVideo) ==
    IF old # NoChannel /\ new = NoChannel
        THEN FreshPlayer(DestroyPlayers(w, hasVideo))
    ELSE IF ~SetupRuns(old, new) THEN w
    ELSE IF old = NoChannel THEN SetupEffect(w, new, e, outcome)
    ELSE RerunSetupEffect(w, new, e, outcome)

\* Faulty variant of the timer effect: no dependency list, it re-runs on
\* every render.
TimerEffectEveryRender(t, old, new, oldRemoving, newRemoving, oldList, newList) ==
    IF new # NoChannel /\ newRemoving THEN Armed(new) ELSE Disarmed

\* Faulty variant of the timer effect: channel.id is missing from the
\* dependency list.
TimerEffectIgnoringChannel(t, old, new, oldRemoving, newRemoving, oldList, newList) ==
    IF new = NoChannel THEN Disarmed
    ELSE IF oldRemoving = newRemoving /\ oldList = newList THEN t
    ELSE IF newRemoving THEN Armed(new)
    ELSE Disarmed

\* The isRemoving timer effect, dependency list
\* [isRemoving, channel.id, onChannelError]: when a dependency changed the
\* cleanup clears the timeout and the body arms a new one if isRemoving.
\* onChannelError changes identity exactly when filteredChannels does.
TimerEffectOnRender(t, old, new, oldRemoving, newRemoving, oldList, newList) ==
    IF new = NoChannel THEN Disarmed
    ELSE IF old = new /\ oldRemoving = newRemoving /\ oldList = newList THEN t
    ELSE IF newRemoving THEN Armed(new)
    ELSE Disarmed

\* handleNextChannel as closed over (cur, list): the channel it passes to
\* setCurrentChannel, NoChannel when it returns early
NextChannelOf(cur, list) ==
    LET idx == GetCurrentChannelIndex(cur, list)
    IN  IF idx = 0 THEN NoChannel ELSE list[NextIndex(idx, Len(list))]

\* handlePrevChannel as closed over (cur, list)
PrevChannelOf(cur, list) ==
    LET idx == GetCurrentChannelIndex(cur, list)
    IN  IF idx = 0 THEN NoChannel ELSE list[PrevIndex(idx, Len(list))]

\* The cleanup of the timer effect runs with a timeout pending.
TimerCleared(t, old, new, oldList, newList) ==
    t.armed /\ (old # new \/ oldList # newList)

\* The keydown effect, dependency list [isPlaying, showAIInfo, volume]: its
\* handler keeps the onNextChannel/onPrevChannel props of the render in which
\* the effect last ran, and these close over that render's currentChannel
\* and filteredChannels.
KeyEffectOnRender(k, old, new, oldPlaying, newPlaying, cur, list) ==
    IF new = NoChannel THEN NoKeyNav
    ELSE IF old = NoChannel \/ oldPlaying # newPlaying
         THEN [next |-> NextChannelOf(cur, list), prev |-> PrevChannelOf(cur, list)]
    ELSE k

(* ------------------------- render and commit --------------------------- *)

Commit(w) ==
    /\ hlsRef' = w.hlsRef
    /\ dashRef' = w.dashRef
    /\ mpegtsRef' = w.mpegtsRef
    /\ error' = w.error
    /\ isRemoving' = w.isRemoving
    /\ isPlaying' = w.isPlaying
    /\ videoSrc' = w.videoSrc
    /\ videoOnError' = w.videoOnError
    /\ leaked' = w.leaked
    /\ ops' = w.ops

\* The re-render that follows a handler. The handler has set the primed App
\* variables and produced w (the player's fields after its own writes), t
\* (the timer after it) and cb (the callback invocation it made).
RenderPlayer(w, t, cb) ==
    LET old == MountedChannel(appState, currentChannel)
        new == MountedChannel(appState', currentChannel')
        newList == FilterChannels(channels', selectedCategory')
    IN  /\ env' = env
        /\ callback' = cb
        /\ emitted' = IF old # new THEN 0
                      ELSE IF cb # NoCallback THEN Min({emitted + 1, 2})
                      ELSE emitted
        /\ \E outcome \in (IF SetupRuns(old, new)
                            THEN SetupOutcomes(ProtocolOf[env][new]) ELSE {"ok"}),
              hasVideo \in (IF old # NoChannel /\ new = NoChannel
                            THEN BOOLEAN ELSE {TRUE}) :
              /\ \E r \in {SetupEffectOnRender(
                             IF TimerCleared(t, old, new, FilteredChannels, newList)
                             THEN Log(w, "clearTimeout", "timer", TRUE) ELSE w,
                             old, new, env, outcome, hasVideo)} :
                    Commit(r)
        /\ timer' = TimerEffectOnRender(t, old, new, isRemoving, isRemoving',
                                        FilteredChannels, newList)
        /\ keyNav' = KeyEffectOnRender(keyNav, old, new, isPlaying, isPlaying',
                                       currentChannel', newList)

\* The metrics state across a render: the setup effect body resets it, and a
\* player mounted later starts from the initial value.
MetricsOnRender(m, old, new) ==
    IF new = NoChannel \/ SetupRuns(old, new) THEN InitialMetrics ELSE m

\* The re-render after a handler that did not sample the health.
Render(w, t, cb) ==
    /\ RenderPlayer(w, t, cb)
    /\ metrics' = MetricsOnRender(metrics,
                                  MountedChannel(appState, currentChannel),
                                  MountedChannel(appState', currentChannel'))
    /\ UNCHANGED <<classifyVars, parseVars, video, audioVars>>

(* --------------------------- the playlist parser ----------------------- *)
\* parseM3U on texts made of lines of a small catalogue. Strings are
\* sequences of one-character strings, as above.

\* Longest playlist text, in lines.
MaxLines == 4

\* Date.now() advances by at most this much while a text is parsed
MaxElapsedMs == 1

\* The value of a property that is not set.
Undefined == <<"undefined">>

\* JavaScript truthiness of a string or undefined
Truthy(v) == v # Undefined /\ v # <<>>

StartsWith(s, prefix) ==
    /\ Len(s) >= Len(prefix)
    /\ SubSeq(s, 1, Len(prefix)) = prefix

\* s.substring(n), n counted from 0
Substring(s, n) == SubSeq(s, n + 1, Len(s))

\* s.substring(a, b)
SubstringTo(s, a, b) == SubSeq(s, a + 1, b)

\* s.indexOf(c), counted from 0, -1 when c does not occur
IndexOf(s, c) ==
    LET hits == {i \in 1..Len(s) : s[i] = c}
    IN  IF hits = {} THEN -1 ELSE Min(hits) - 1

Includes(s, c) == IndexOf(s, c) # -1

\* s.split(sep) for a one-character separator
RECURSIVE Split(_, _)
Split(s, sep) ==
    LET i == IndexOf(s, sep)
    IN  IF i = -1 THEN <<s>>
        ELSE <<SubstringTo(s, 0, i)>> \o Split(Substring(s, i + 1), sep)

\* lines.join('\n')
RECURSIVE Join(_)
Join(ls) ==
    IF ls = <<>> THEN <<>>
    ELSE IF Len(ls) = 1 THEN ls[1]
    ELSE ls[1] \o <<"\n">> \o Join(Tail(ls))

\* info.match(/key="([^"]*)"/): the captured group, Undefined for no match
MatchAttr(info, key) ==
    LET pre == key \o <<"=", "\"">>
        hits == {i \in 1..Len(info) : StartsWith(Substring(info, i - 1), pre)}
    IN  IF hits = {} THEN Undefined
        ELSE LET rest == Substring(info, Min(hits) - 1 + Len(pre))
                 q == IndexOf(rest, "\"")
             IN  IF q = -1 THEN Undefined ELSE SubstringTo(rest, 0, q)

HexDigits ==
    {"0", "1", "2", "3", "4", "5", "6", "7", "8", "9",
     "a", "b", "c", "d", "e", "f", "A", "B", "C", "D", "E", "F"}

\* The character of a percent escape, for the escapes the texts use.
PercentChar(h, l) ==
    CASE h = "2" /\ l = "0" -> " "
      [] h = "2" /\ l = "6" -> "&"
      [] h = "3" /\ l \in {"d", "D"} -> "="
      [] OTHER -> "?"

\* What decodeURIComponent throws on a malformed escape.
URIError == <<"URIError">>

\* decodeURIComponent(v): the decoded string, or URIError
RECURSIVE DecodeURIComponent(_)
DecodeURIComponent(v) ==
    IF v = <<>> THEN <<>>
    ELSE IF Head(v) # "%"
         THEN LET r == DecodeURIComponent(Tail(v))
              IN  IF r = URIError THEN URIError ELSE <<Head(v)>> \o r
    ELSE IF Len(v) >= 3 /\ v[2] \in HexDigits /\ v[3] \in HexDigits
         THEN LET r == DecodeURIComponent(Substring(v, 3))
              IN  IF r = URIError THEN URIError
                  ELSE <<PercentChar(v[2], v[3])>> \o r
    ELSE URIError

KodipropPrefix ==
    <<"#", "K", "O", "D", "I", "P", "R", "O", "P", ":">>

ExtinfPrefix ==
    <<"#", "E", "X", "T", "I", "N", "F", ":">>

TvgIdAttr ==
    <<"t", "v", "g", "-", "i", "d">>

TvgLogoAttr ==
    <<"t", "v", "g", "-", "l", "o", "g", "o">>

GroupTitleAttr ==
    <<"g", "r", "o", "u", "p", "-", "t", "i", "t", "l", "e">>

LicenseTypeKey ==
    <<"i", "n", "p", "u", "t", "s", "t", "r", "e", "a", "m", ".", "a", "d",
      "a", "p", "t", "i", "v", "e", ".", "l", "i", "c", "e", "n", "s", "e",
      "_", "t", "y", "p", "e">>

LicenseKeyKey ==
    <<"i", "n", "p", "u", "t", "s", "t", "r", "e", "a", "m", ".", "a", "d",
      "a", "p", "t", "i", "v", "e", ".", "l", "i", "c", "e", "n", "s", "e",
      "_", "k", "e", "y">>

UserAgentKey ==
    <<"h", "t", "t", "p", "-", "u", "s", "e", "r", "-", "a", "g", "e", "n",
      "t">>

ReferrerKey ==
    <<"h", "t", "t", "p", "-", "r", "e", "f", "e", "r", "r", "e", "r">>

Uncategorized ==
    <<"U", "n", "c", "a", "t", "e", "g", "o", "r", "i", "z", "e", "d">>

UnknownChannel ==
    <<"U", "n", "k", "n", "o", "w", "n", " ", "C", "h", "a", "n", "n", "e",
      "l">>

AllChannelsName ==
    <<"A", "l", "l", " ", "C", "h", "a", "n", "n", "e", "l", "s">>

ChannelPrefix ==
    <<"C", "h", "a", "n", "n", "e", "l", " ">>

\* Record<string, string>: a function from the keys set to their values
EmptyMap == [k \in {} |-> <<>>]

GetProp(m, k) == IF k \in DOMAIN m THEN m[k] ELSE Undefined

SetProp(m, k, v) == [x \in DOMAIN m \cup {k} |-> IF x = k THEN v ELSE m[x]]

\* currentChannel = {}
EmptyChannel ==
    [tvgId |-> Undefined, name |-> Undefined, logo |-> Undefined,
     group |-> Undefined]

\* drm: undefined
NoDrm == [type |-> Undefined, licenseUrl |-> Undefined, headers |-> EmptyMap]

\* parts[1].split('&').forEach(h => ...) over the segments hs, adding to the
\* headers acc; ok is FALSE when decodeURIComponent threw
RECURSIVE HeadersOf(_, _)
HeadersOf(hs, acc) ==
    IF hs = <<>> THEN [ok |-> TRUE, headers |-> acc]
    ELSE LET kv == Split(Head(hs), "=")
             k == kv[1]
             v == IF Len(kv) >= 2 THEN kv[2] ELSE Undefined
         IN  IF Truthy(k) /\ Truthy(v)
             THEN LET d == DecodeURIComponent(v)
                  IN  IF d = URIError THEN [ok |-> FALSE, headers |-> acc]
                      ELSE HeadersOf(Tail(hs), SetProp(acc, k, d))
             ELSE HeadersOf(Tail(hs), acc)

\* The DRM block of the URL branch: [ok, drm], ok FALSE when it threw
DrmOf(props) ==
    LET licenseType == GetProp(props, LicenseTypeKey)
        licenseKey == GetProp(props, LicenseKeyKey)
    IN  IF Truthy(licenseType) /\ Truthy(licenseKey)
        THEN IF Includes(licenseKey, "|")
             THEN LET parts == Split(licenseKey, "|")
                      hd == IF Truthy(parts[2])
                            THEN HeadersOf(Split(parts[2], "&"), EmptyMap)
                            ELSE [ok |-> TRUE, headers |-> EmptyMap]
                  IN  [ok |-> hd.ok,
                       drm |-> [type |-> licenseType, licenseUrl |-> parts[1],
                                headers |-> hd.headers]]
             ELSE [ok |-> TRUE,
                   drm |-> [type |-> licenseType, licenseUrl |-> licenseKey,
                            headers |-> EmptyMap]]
        ELSE [ok |-> TRUE, drm |-> NoDrm]

\* the #KODIPROP: branch
KodipropLine(p, trimmed) ==
    LET prop == Substring(trimmed, 10)
        splitIndex == IndexOf(prop, "=")
    IN  IF splitIndex # -1
        THEN [p EXCEPT !.currentProps =
                 SetProp(@, Trim(SubstringTo(prop, 0, splitIndex)),
                         Trim(Substring(prop, splitIndex + 1)))]
        ELSE p

\* the #EXTINF: branch
ExtinfLine(p, trimmed) ==
    LET info == Substring(trimmed, 8)
        tvgIdMatch == MatchAttr(info, TvgIdAttr)
        logoMatch == MatchAttr(info, TvgLogoAttr)
        groupMatch == MatchAttr(info, GroupTitleAttr)
        nameParts == Split(info, ",")
        name == Trim(nameParts[Len(nameParts)])
        group == IF groupMatch # Undefined THEN groupMatch ELSE Uncategorized
    IN  [p EXCEPT !.currentChannel =
                      [tvgId |-> tvgIdMatch,
                       name |-> IF Truthy(name) THEN name ELSE UnknownChannel,
                       logo |-> logoMatch,
                       group |-> group],
                  !.categoriesSet = IF Truthy(group) THEN @ \cup {group} ELSE @]

\* the accumulators left as they are
KeepAccumulators(p) == p

\* currentChannel = {}; currentProps = {}
ResetAccumulators(p) ==
    [p EXCEPT !.currentChannel = EmptyChannel, !.currentProps = EmptyMap]

\* an id made of the clock only
ChannelIdFromClock(now, index) == "ch-" \o ToString(now)

\* `ch-${Date.now()}-${index}`
ChannelId(now, index) == "ch-" \o ToString(now) \o "-" \o ToString(index)

\* the URL branch, for the line at forEach index `index` read at time `now`
UrlLine(p, trimmed, index, now) ==
    LET d == DrmOf(p.currentProps)
        cc == p.currentChannel
        channelName == IF Truthy(cc.name) THEN cc.name
                       ELSE ChannelPrefix \o <<ToString(Len(p.channels) + 1)>>
        group == IF Truthy(cc.group) THEN cc.group ELSE Uncategorized
        ch == [id |-> ChannelId(now, index),
               name |-> channelName,
               tvgId |-> cc.tvgId,
               logo |-> cc.logo,
               group |-> group,
               url |-> trimmed,
               drm |-> d.drm,
               userAgent |-> GetProp(p.currentProps, UserAgentKey),
               referrer |-> GetProp(p.currentProps, ReferrerKey)]
    IN  IF ~d.ok THEN [p EXCEPT !.status = "threw"]
        ELSE ResetAccumulators([p EXCEPT !.channels = Append(@, ch),
                                         !.categoriesSet = @ \cup {group}])

IsUrlLine(trimmed) == trimmed # <<>> /\ ~StartsWith(trimmed, <<"#">>)

\* the callback of lines.forEach for the next line; now is Date.now()
ForEachBody(p, now) ==
    LET trimmed == Trim(p.lines[p.index + 1])
        q == [p EXCEPT !.index = @ + 1, !.now = now]
    IN  IF trimmed = <<>> THEN q
        ELSE IF StartsWith(trimmed, KodipropPrefix) THEN KodipropLine(q, trimmed)
        ELSE IF StartsWith(trimmed, ExtinfPrefix) THEN ExtinfLine(q, trimmed)
        ELSE IF ~StartsWith(trimmed, <<"#">>)
             THEN UrlLine(q, trimmed, p.index, now)
        ELSE q

\* Array.prototype.sort() orders strings by code unit: the printable ASCII
\* characters in that order (backslash and backquote, which no text uses,
\* left out)
Alphabet ==
    <<" ", "!", "\"", "#", "$", "%", "&", "'", "(", ")", "*", "+", ",",
      "-", ".", "/", "0", "1", "2", "3", "4", "5", "6", "7", "8", "9", ":",
      ";", "<", "=", ">", "?", "@", "A", "B", "C", "D", "E", "F", "G", "H",
      "I", "J", "K", "L", "M", "N", "O", "P", "Q", "R", "S", "T", "U", "V",
      "W", "X", "Y", "Z", "[", "]", "^", "_", "a", "b", "c", "d",
      "e", "f", "g", "h", "i", "j", "k", "l", "m", "n", "o", "p", "q", "r",
      "s", "t", "u", "v", "w", "x", "y", "z", "{", "|", "}", "~">>

CodeOf(c) == CHOOSE i \in 1..Len(Alphabet) : Alphabet[i] = c

\* a < b in the order of the default sort
RECURSIVE LexLess(_, _)
LexLess(a, b) ==
    IF b = <<>> THEN FALSE
    ELSE IF a = <<>> THEN TRUE
    ELSE IF Head(a) = Head(b) THEN LexLess(Tail(a), Tail(b))
    ELSE CodeOf(Head(a)) < CodeOf(Head(b))

\* Array.from(set).sort()
RECURSIVE SortSet(_)
SortSet(S) ==
    IF S = {} THEN <<>>
    ELSE LET m == CHOOSE x \in S : \A y \in S \ {x} : LexLess(x, y)
         IN  <<m>> \o SortSet(S \ {m})

\* sortedCategories after the unshift
CategoriesFrom(set) ==
    LET sorted == SortSet(set)
    IN  <<[id |-> "all", name |-> AllChannelsName]>> \o
        [i \in 1..Len(sorted) |->
            [id |-> "cat-" \o ToString(i - 1), name |-> sorted[i]]]

\* parseM3U up to its forEach
StartParse(content) ==
    [status |-> "running", lines |-> Split(content, "\n"), index |-> 0,
     now |-> 0, channels |-> <<>>, categoriesSet |-> {},
     currentChannel |-> EmptyChannel, currentProps |-> EmptyMap,
     categories |-> <<>>]

\* the statements after the forEach
Finish(p) ==
    [p EXCEPT !.status = "returned",
              !.categories = CategoriesFrom(p.categoriesSet)]

\* parseM3U from parser state p to its end, the clock standing still
RECURSIVE ParseFrom(_)
ParseFrom(p) ==
    IF p.status # "running" THEN p
    ELSE IF p.index = Len(p.lines) THEN Finish(p)
    ELSE ParseFrom(ForEachBody(p, p.now))

ParseM3U(content) == ParseFrom(StartParse(content))

(* Lines of playlists without DRM properties. *)

\* a line of spaces only
BlankLine ==
    <<" ", " ", " ">>

\* the header, a comment to the parser
CommentLine ==
    <<"#", "E", "X", "T", "M", "3", "U">>

\* a URL line with spaces around it
UrlOne ==
    <<" ", "h", "t", "t", "p", ":", "/", "/", "a", "/", "1", " ">>

ExtinfNews ==
    <<"#", "E", "X", "T", "I", "N", "F", ":", "-", "1", " ", "t", "v",
      "g", "-", "i", "d", "=", "\"", "n", "1", "\"", " ", "t", "v", "g",
      "-", "l", "o", "g", "o", "=", "\"", "n", ".", "p", "n", "g", "\"",
      " ", "g", "r", "o", "u", "p", "-", "t", "i", "t", "l", "e", "=", "\"",
      "N", "e", "w", "s", "\"", ",", "N", "e", "w", "s", " ", "O", "n",
      "e">>

\* no attributes, and a name with a comma in it
ExtinfNoGroup ==
    <<"#", "E", "X", "T", "I", "N", "F", ":", "-", "1", ",", "P", "l",
      "a", "i", "n", ",", " ", "T", "w", "o">>

ExtinfEmptyGroup ==
    <<"#", "E", "X", "T", "I", "N", "F", ":", "-", "1", " ", "g", "r",
      "o", "u", "p", "-", "t", "i", "t", "l", "e", "=", "\"", "\"", ",",
      "B", "a", "r", "e">>

\* empty text after the final comma
ExtinfNoName ==
    <<"#", "E", "X", "T", "I", "N", "F", ":", "-", "1", " ", "g", "r",
      "o", "u", "p", "-", "t", "i", "t", "l", "e", "=", "\"", "K", "i", "d",
      "s", "\"", ",", " ", " ">>

\* nothing after the tag
ExtinfMalformed ==
    <<"#", "E", "X", "T", "I", "N", "F", ":">>

UrlTwo ==
    <<"h", "t", "t", "p", ":", "/", "/", "a", "/", "2">>

(* Lines of playlists with DRM and header properties. *)

PropLicenseType ==
    <<"#", "K", "O", "D", "I", "P", "R", "O", "P", ":", "i", "n", "p",
      "u", "t", "s", "t", "r", "e", "a", "m", ".", "a", "d", "a", "p",
      "t", "i", "v", "e", ".", "l", "i", "c", "e", "n", "s", "e", "_",
      "t", "y", "p", "e", "=", "c", "l", "e", "a", "r", "k", "e", "y">>

\* the start of a license_key property line
LicenseKeyPrefix ==
    <<"#", "K", "O", "D", "I", "P", "R", "O", "P", ":", "i", "n", "p",
      "u", "t", "s", "t", "r", "e", "a", "m", ".", "a", "d", "a", "p",
      "t", "i", "v", "e", ".", "l", "i", "c", "e", "n", "s", "e", "_",
      "k", "e", "y", "=">>

LicenseUrlExample ==
    <<"h", "t", "t", "p", "s", ":", "/", "/", "l", "i", "c", ".", "e",
      "x", "a", "m", "p", "l", "e", "/", "x">>

HeadersExample ==
    <<"H", "e", "a", "d", "e", "r", "1", "=", "a", "a", "a", "&", "H",
      "e", "a", "d", "e", "r", "2", "=", "b", "%", "2", "0", "b">>

\* a header whose value ends in a bare percent sign
HeadersBadEscape ==
    <<"H", "=", "%">>

\* a value with an equals sign in it, an empty value, an empty name, a bare name
HeadersOddSegments ==
    <<"A", "=", "b", "=", "c", "&", "E", "=", "&", "=", "f", "&", "G">>

\* a property line without '='
PropNoEquals ==
    <<"#", "K", "O", "D", "I", "P", "R", "O", "P", ":", "n", "o", "v",
      "a", "l", "u", "e">>

PropUserAgent ==
    <<"#", "K", "O", "D", "I", "P", "R", "O", "P", ":", " ", "h", "t",
      "t", "p", "-", "u", "s", "e", "r", "-", "a", "g", "e", "n", "t",
      " ", "=", " ", "U", "A", "/", "1", " ">>

PropReferrer ==
    <<"#", "K", "O", "D", "I", "P", "R", "O", "P", ":", "h", "t", "t",
      "p", "-", "r", "e", "f", "e", "r", "r", "e", "r", "=", "h", "t",
      "t", "p", ":", "/", "/", "r">>

PropKeyPlain == LicenseKeyPrefix \o LicenseUrlExample

PropKeyHeaders ==
    LicenseKeyPrefix \o LicenseUrlExample \o <<"|">> \o HeadersExample

PropKeyBadEscape ==
    LicenseKeyPrefix \o LicenseUrlExample \o <<"|">> \o HeadersBadEscape

PropKeyOddSegments ==
    LicenseKeyPrefix \o LicenseUrlExample \o <<"|">> \o HeadersOddSegments

(* ------------------------------ App actions ---------------------------- *)

\* parseM3U result for the playlist text
Playlists == {<<>>, AllChannels}

CategoriesOf(chs) ==
    <<"All Channels">> \o
    (IF \E i \in 1..Len(chs) : ChannelGroup(chs[i]) = "A" THEN <<"A">> ELSE <<>>) \o
    (IF \E i \in 1..Len(chs) : ChannelGroup(chs[i]) = "B" THEN <<"B">> ELSE <<>>)

\* The texts handed to loadPlaylist: the empty text, a header only, metadata
\* without a URL line, a playlist with channels, and one parseM3U throws on.
EmptyText == Join(<<>>)
HeaderOnlyText == Join(<<CommentLine>>)
MetadataOnlyText == Join(<<CommentLine, ExtinfNews, BlankLine>>)
ChannelsText == Join(<<CommentLine, ExtinfNews, UrlOne>>)
ThrowingText == Join(<<PropLicenseType, PropKeyBadEscape, UrlOne>>)

PlaylistTexts ==
    {EmptyText, HeaderOnlyText, MetadataOnlyText, ChannelsText, ThrowingText}

\* a load that takes every parse result for a playlist with channels
LoadOutcomeIgnoringLength(r) ==
    IF r.status = "threw" THEN "threw" ELSE "channels"

\* the path loadPlaylist takes for the parse result r
LoadOutcome(r) ==
    IF r.status = "threw" THEN "threw"
    ELSE IF Len(r.channels) = 0 THEN "empty"
    ELSE "channels"

LoadResult == [content \in PlaylistTexts |-> LoadOutcome(ParseM3U(content))]

\* The channels of the session are the ids of AllChannels: a text with
\* channels stands for the playlist that parses to them.
LoadPlaylist(content) ==
    /\ appState = "SETUP"
    /\ IF LoadResult[content] = "channels"
       THEN /\ channels' = AllChannels
            /\ categories' = CategoriesOf(AllChannels)
            /\ appState' = "BROWSING"
            /\ UNCHANGED <<selectedCategory, currentChannel>>
            /\ Render(World, timer, NoCallback)
       ELSE /\ UNCHANGED appVars
            /\ Render(Log(World, "alert", "window", TRUE), timer, NoCallback)

\* the settings button, Backspace or Escape of the browsing view
OpenSetup ==
    /\ appState = "BROWSING"
    /\ appState' = "SETUP"
    /\ UNCHANGED <<channels, categories, selectedCategory, currentChannel>>
    /\ Render(World, timer, NoCallback)

\* a sidebar category button
SelectCategory(i) ==
    /\ appState = "BROWSING"
    /\ i \in 1..Len(categories)
    /\ selectedCategory' =
           IF categories[i] = "All Channels" THEN "all" ELSE categories[i]
    /\ UNCHANGED <<appState, channels, categories, currentChannel>>
    /\ Render(World, timer, NoCallback)

HandleChannelSelect(c) ==
    /\ appState = "BROWSING"
    /\ FindIndex(FilteredChannels, c) # 0
    /\ currentChannel' = c
    /\ appState' = "PLAYING"
    /\ UNCHANGED <<channels, categories, selectedCategory>>
    /\ Render(World, timer, NoCallback)

\* the back button, or Escape / Backspace in the player
\* Faulty variant of handleBackFromPlayer: the current channel is kept.
HandleBackKeepingChannel ==
    /\ Mounted
    /\ appState' = "BROWSING"
    /\ UNCHANGED <<channels, categories, selectedCategory, currentChannel>>
    /\ Render(World, timer, NoCallback)

HandleBackFromPlayer ==
    /\ Mounted
    /\ appState' = "BROWSING"
    /\ currentChannel' = NoChannel
    /\ UNCHANGED <<channels, categories, selectedCategory>>
    /\ Render(World, timer, NoCallback)

\* setCurrentChannel(c), or nothing when the handler returned early
SetCurrentChannel(c) ==
    /\ currentChannel' = IF c = NoChannel THEN currentChannel ELSE c
    /\ UNCHANGED <<appState, channels, categories, selectedCategory>>
    /\ Render(World, timer, NoCallback)

\* The on-screen buttons call the handler of the current render. The
\* "Channel Offline" overlay covers them while isRemoving.
HandleNextChannel ==
    /\ Mounted
    /\ ~isRemoving
    /\ SetCurrentChannel(NextChannelOf(currentChannel, FilteredChannels))

HandlePrevChannel ==
    /\ Mounted
    /\ ~isRemoving
    /\ SetCurrentChannel(PrevChannelOf(currentChannel, FilteredChannels))

\* ArrowRight / ArrowLeft call the handler captured by the keydown effect.
KeyArrowRight ==
    /\ Mounted
    /\ SetCurrentChannel(keyNav.next)

KeyArrowLeft ==
    /\ Mounted
    /\ SetCurrentChannel(keyNav.prev)

\* Faulty variant of handleChannelError: the successor is dropped from the
\* list together with the failed channel.
HandleChannelErrorDroppingNext(channelId) ==
    LET list == FilteredChannels
        failedChannelIndex == FindIndex(list, channelId)
        nextChannel == IF Len(list) > 1
                       THEN list[NextIndex(failedChannelIndex, Len(list))]
                       ELSE NoChannel
    IN  IF failedChannelIndex = 0
        THEN UNCHANGED appVars
        ELSE /\ channels' = SelectSeq(channels,
                                      LAMBDA c : c # channelId /\ c # nextChannel)
             /\ IF nextChannel # NoChannel
                THEN /\ currentChannel' = nextChannel
                     /\ UNCHANGED appState
                ELSE /\ appState' = "BROWSING"
                     /\ currentChannel' = NoChannel
             /\ UNCHANGED <<categories, selectedCategory>>

\* handleChannelError(channelId), closed over the current filteredChannels
HandleChannelError(channelId) ==
    LET list == FilteredChannels
        failedChannelIndex == FindIndex(list, channelId)
        nextChannel == IF Len(list) > 1
                       THEN list[NextIndex(failedChannelIndex, Len(list))]
                       ELSE NoChannel
    IN  IF failedChannelIndex = 0
        THEN UNCHANGED appVars
        ELSE /\ channels' = SelectSeq(channels, LAMBDA c : c # channelId)
             /\ IF nextChannel # NoChannel
                THEN /\ currentChannel' = nextChannel
                     /\ UNCHANGED appState
                ELSE /\ appState' = "BROWSING"
                     /\ currentChannel' = NoChannel
             /\ UNCHANGED <<categories, selectedCategory>>

(* --------------------------- VideoPlayer actions ----------------------- *)

\* time passes
Tick ==
    /\ timer.armed
    /\ timer.left > 0
    /\ timer' = [timer EXCEPT !.left = Max({0, @ - TickMs})]
    /\ ops' = <<>>
    /\ callback' = NoCallback
    /\ UNCHANGED <<appVars, env, playerVars, keyNav, mediaVars, emitted>>
    /\ UNCHANGED unitVars

\* Faulty variant of the timeout: the callback runs before the delay is over.
TimerFireEarly ==
    /\ Mounted
    /\ timer.armed
    /\ HandleChannelError(timer.id)
    /\ Render(World, Disarmed,
              [id |-> timer.id, nth |-> emitted + 1, reason |-> error])

\* the timeout of the isRemoving effect expires: onChannelError(channel.id)
TimerFire ==
    /\ Mounted
    /\ timer.armed
    /\ timer.left = 0
    /\ HandleChannelError(timer.id)
    /\ Render(World, Disarmed,
              [id |-> timer.id, nth |-> emitted + 1, reason |-> error])

\* Enter / Space (a click cannot reach the controls while isRemoving)
TogglePlay ==
    /\ Mounted
    /\ UNCHANGED appVars
    /\ Render([World EXCEPT !.isPlaying = ~isPlaying], timer, NoCallback)

\* dashjs ERROR event
DashError ==
    /\ Mounted
    /\ dashRef # NoInst
    /\ UNCHANGED appVars
    /\ Render(HandleFatalError(World, "DASH Error"), timer, NoCallback)

MpegtsErrorTypes == {"NetworkError", "MediaError", "OtherError"}

\* Faulty variant of the mpegts.js handler: every error type is fatal.
MpegtsErrorHandlerAllFatal(w, type) == HandleFatalError(w, "Network Error")

\* mpegts.js ERROR event
MpegtsErrorHandler(w, type) ==
    IF type = "NetworkError" THEN HandleFatalError(w, "Network Error") ELSE w

MpegtsError(type) ==
    /\ Mounted
    /\ mpegtsRef # NoInst
    /\ UNCHANGED appVars
    /\ Render(MpegtsErrorHandler(World, type), timer, NoCallback)

HlsErrorTypes == {"networkError", "mediaError", "otherError"}

\* hls.startLoad() / hls.recoverMediaError() on the instance the handler
\* closes over
Recover(w, call) ==
    Log([w EXCEPT !.hlsRef.recov = @ + 1], call, "hls", w.hlsRef.st = "attached")

\* Faulty variant of the hls.js handler: an error that is not flagged fatal
\* is escalated.
HlsErrorHandlerEscalating(w, fatal, type) ==
    IF fatal /\ type = "networkError" THEN Recover(w, "startLoad")
    ELSE IF fatal /\ type = "mediaError" THEN Recover(w, "recoverMediaError")
    ELSE HandleFatalError(DestroyPlayers(w, TRUE), "Stream Connection Failed")

\* Faulty variant of the hls.js handler: only a fatal network error is
\* recovered, a fatal media error takes the default case.
HlsErrorHandlerMediaFatal(w, fatal, type) ==
    IF ~fatal THEN w
    ELSE IF type = "networkError" THEN Recover(w, "startLoad")
    ELSE HandleFatalError(DestroyPlayers(w, TRUE), "Stream Connection Failed")

\* hls.js ERROR event
HlsErrorHandler(w, fatal, type) ==
    IF fatal
    THEN CASE type = "networkError" -> Recover(w, "startLoad")
           [] type = "mediaError" -> Recover(w, "recoverMediaError")
           [] OTHER -> HandleFatalError(DestroyPlayers(w, TRUE),
                                        "Stream Connection Failed")
    ELSE w

HlsError(fatal, type) ==
    /\ Mounted
    /\ hlsRef # NoInst
    /\ (fatal /\ type \in {"networkError", "mediaError"})
          => hlsRef.recov < MaxRecoveries
    /\ UNCHANGED appVars
    /\ Render(HlsErrorHandler(World, fatal, type), timer, NoCallback)

\* The media element has something to play: a native source or the media
\* source of the session's engine.
MediaLoaded ==
    \/ videoSrc
    \/ hlsRef.st = "attached"
    \/ dashRef.st = "attached"
    \/ mpegtsRef.st = "attached"

\* Faulty variant of video.onerror: the source is loaded again and no
\* verdict is raised.
VideoErrorReloads ==
    /\ Mounted
    /\ videoOnError
    /\ MediaLoaded
    /\ UNCHANGED appVars
    /\ Render(Log(World, "load", "video", TRUE), timer, NoCallback)

\* the media element's error event, delivered to video.onerror
VideoError ==
    /\ Mounted
    /\ videoOnError
    /\ MediaLoaded
    /\ UNCHANGED appVars
    /\ Render(HandleFatalError(World, "Format not supported or offline"),
              timer, NoCallback)

\* The backend of the running session, by the handle or source it holds.
SessionBackend ==
    CASE dashRef # NoInst -> "dash"
      [] mpegtsRef # NoInst -> "mpegts"
      [] hlsRef # NoInst -> "hls"
      [] videoSrc -> "native"
      [] OTHER -> "none"

\* error.name of a rejected play() promise
PlayErrorNames == {"AbortError", "NotAllowedError", "NotSupportedError"}

\* Faulty variant of the catch of safePlay: a rejection that is not an abort
\* is treated as a fatal error.
SafePlayCatchFatal(w, name) ==
    IF name = "AbortError" THEN w
    ELSE HandleFatalError([w EXCEPT !.isPlaying = FALSE], "Playback Failed")

\* the catch of safePlay
SafePlayCatch(w, name) ==
    IF name = "AbortError" THEN w
    ELSE IF name = "NotAllowedError" THEN [w EXCEPT !.isPlaying = FALSE]
    ELSE w

\* the catch on the promise of the mpegts.js player.play()
MpegtsPlayCatch(w, name) == w

\* What the session does with a rejection of its autoplay: the native branch
\* and the HLS branch (on MANIFEST_PARSED) play through safePlay, the MPEGTS
\* branch has its own catch, and dash.js plays by itself on
\* initialize(video, url, true) with no handler of the player's.
AutoplayRejected(w, backend, name) ==
    CASE backend \in {"native", "hls"} -> SafePlayCatch(w, name)
      [] backend = "mpegts" -> MpegtsPlayCatch(w, name)
      [] OTHER -> w

\* the session's autoplay is rejected
PlayRejected(name) ==
    /\ Mounted
    /\ SessionBackend # "none"
    /\ UNCHANGED appVars
    /\ Render(AutoplayRejected(World, SessionBackend, name), timer, NoCallback)

(* ------------------------------ specification -------------------------- *)

\* No URL under test.
NoProbe == [pad |-> <<>>, ext |-> <<>>, query |-> <<>>, url |-> <<>>]

\* The App as constructed, nothing loaded and no player mounted.
SessionInit ==
    /\ appState = "SETUP"
    /\ channels = <<>>
    /\ categories = <<>>
    /\ selectedCategory = "all"
    /\ currentChannel = NoChannel
    /\ hlsRef = NoInst
    /\ dashRef = NoInst
    /\ mpegtsRef = NoInst
    /\ error = NoError
    /\ isRemoving = FALSE
    /\ isPlaying = TRUE
    /\ timer = Disarmed
    /\ keyNav = NoKeyNav
    /\ videoSrc = FALSE
    /\ videoOnError = FALSE
    /\ leaked = FALSE
    /\ ops = <<>>
    /\ callback = NoCallback
    /\ emitted = 0

\* parseM3U not running.
NoParser == [status |-> "idle"]

\* videoRef.current is null: no media element to sample. attached: there is a
\* media element; taken: checkHealth has run on the reading.
NoVideo == [attached |-> FALSE, taken |-> FALSE, error |-> FALSE,
            isRemoving |-> FALSE, readyState |-> 0, currentTime |-> 0,
            buffered |-> <<>>]

ClassifyIdle == urlProbe = NoProbe /\ protocol = "none"
ParseIdle == parser = NoParser
HealthIdle == video = NoVideo /\ metrics = InitialMetrics

\* useState initial values with nothing saved in localStorage
AudioIdle == volume = VolumeOne /\ isMuted = FALSE

Init ==
    /\ SessionInit
    /\ env \in PlayerEnvs
    /\ ClassifyIdle
    /\ ParseIdle
    /\ HealthIdle
    /\ AudioIdle

Next ==
    \/ \E content \in PlaylistTexts : LoadPlaylist(content)
    \/ OpenSetup
    \/ \E i \in 1..3 : SelectCategory(i)
    \/ \E c \in ChannelIds : HandleChannelSelect(c)
    \/ HandleBackFromPlayer
    \/ HandleNextChannel
    \/ HandlePrevChannel
    \/ KeyArrowRight
    \/ KeyArrowLeft
    \/ Tick
    \/ TimerFire
    \/ TogglePlay
    \/ DashError
    \/ \E type \in MpegtsErrorTypes : MpegtsError(type)
    \/ \E fatal \in BOOLEAN, type \in HlsErrorTypes : HlsError(fatal, type)
    \/ VideoError
    \/ \E name \in PlayErrorNames : PlayRejected(name)

Spec == Init /\ [][Next]_vars

TypeOK ==
    /\ appState \in {"SETUP", "BROWSING", "PLAYING"}
    /\ currentChannel \in ChannelIds \cup {NoChannel}
    /\ hlsRef.st \in {"none", "attached"}
    /\ isRemoving \in BOOLEAN
    /\ timer.left \in 0..FatalDelayMs

(* ------------------------------ properties ----------------------------- *)

\* Number of backend adapters attached to the media element through the
\* player's handles and the element's own source.
AttachedCount ==
    (IF hlsRef.st = "attached" THEN 1 ELSE 0)
    + (IF dashRef.st = "attached" THEN 1 ELSE 0)
    + (IF mpegtsRef.st = "attached" THEN 1 ELSE 0)
    + (IF videoSrc THEN 1 ELSE 0)

SetupOps == {"construct", "attach", "setSrc"}
TeardownOps == {"destroy", "clearSrc"}

HasOp(log, names) == \E k \in DOMAIN log : log[k].op \in names

\* op name on target occurs in log before position k
Before(log, k, name, target) ==
    \E j \in 1..(k - 1) : log[j].op = name /\ log[j].on = target

\* C1: in every reachable state of a run in which no setup threw after
\* constructing its engine (so in every run whose setups all complete), at
\* most one backend adapter is attached to the media element.
C1_AtMostOneAdapter == ~leaked => AttachedCount <= 1

\* A session with exactly one adapter, set up by a step that tore the
\* previous session's engine down.
C1_Witness ==
    /\ Mounted
    /\ ~leaked
    /\ AttachedCount = 1
    /\ HasOp(ops, {"destroy"})
    /\ HasOp(ops, {"attach"})

\* C2: in every step that constructs or attaches an adapter, the teardown of
\* the previous session (destroy of every engine a handle held before the
\* step, clearing of the media element's source) comes before the first
\* construct/attach operation, and no teardown operation comes after it.
C2_TeardownBeforeAttach ==
    [][\A k \in DOMAIN ops' :
          ops'[k].op \in SetupOps =>
              /\ Before(ops', k, "clearSrc", "video")
              /\ hlsRef # NoInst => Before(ops', k, "destroy", "hls")
              /\ dashRef # NoInst => Before(ops', k, "destroy", "dash")
              /\ mpegtsRef # NoInst => Before(ops', k, "destroy", "mpegts")
              /\ \A j \in DOMAIN ops' : j > k => ops'[j].op \notin TeardownOps]_vars

\* A channel switch whose step destroyed the old engine and then attached
\* the new one.
C2_Witness ==
    \E j, k \in DOMAIN ops :
        /\ j < k
        /\ ops[j].op = "destroy"
        /\ ops[k].op = "attach"
        /\ ops[j].on # ops[k].on

\* C3: a DASH engine error puts the session in pending removal with the
\* reason recorded and, unless a timeout of the session already ran, a
\* timeout of the full delay armed for the current channel; the
\* channel-failed callback is invoked only by a timeout that has run its
\* whole delay, with the identifier that timeout was armed for.
C3_DashErrorThenDelayedCallback ==
    [][/\ DashError =>
             /\ isRemoving'
             /\ error' = "DASH Error"
             /\ ~isRemoving => timer' = Armed(currentChannel)
       /\ callback'.id # NoChannel =>
             /\ timer.armed
             /\ timer.left = 0
             /\ isRemoving
             /\ callback'.id = timer.id
             /\ callback'.id = currentChannel]_vars

\* The callback has just been invoked for a session whose recorded reason
\* was the DASH error.
C3_Witness ==
    /\ callback.id # NoChannel
    /\ callback.reason = "DASH Error"
    /\ ProtocolOf[env][callback.id] = "DASH"

\* C4: within one playback session (while the same channel stays mounted)
\* the callback is invoked at most once, and a pending timeout is never
\* restarted: its remaining delay never grows.
C4_CallbackAtMostOnce ==
    [][/\ callback'.nth <= 1
       /\ emitted' <= 1
       /\ (/\ timer.armed
           /\ timer'.armed
           /\ MountedChannel(appState, currentChannel)
                  = MountedChannel(appState', currentChannel'))
            => timer'.left <= timer.left]_vars

\* A session that has made its one invocation and is still mounted and
\* pending, with an engine whose error events keep arriving.
C4_Witness ==
    /\ Mounted
    /\ isRemoving
    /\ emitted = 1
    /\ ~timer.armed
    /\ dashRef # NoInst

\* C5: an armed timeout always belongs to the mounted channel, so a channel
\* switch or an unmount leaves no timeout armed for the previous channel; and
\* the callback is only ever invoked with the identifier of the channel that
\* is mounted when it runs.
C5_SwitchCancelsTimer ==
    [][/\ timer'.armed =>
             timer'.id = MountedChannel(appState', currentChannel')
       /\ callback'.id # NoChannel =>
             callback'.id = MountedChannel(appState, currentChannel)]_vars

\* A pending timeout has just been cleared by a switch to a channel that
\* started a fresh session.
C5_Witness ==
    /\ HasOp(ops, {"clearTimeout"})
    /\ Mounted
    /\ ~isRemoving
    /\ ~timer.armed
    /\ callback = NoCallback
    /\ AttachedCount = 1

\* C6: every step that takes the mounted channel to a channel with a
\* different identifier begins a new session: the teardown runs, the pending
\* flag and the fatal reason of the previous session are cleared (only a
\* failure of the new setup may set them again), and the new backend is set
\* up.
C6_NewIdNewSession ==
    [][(/\ MountedChannel(appState, currentChannel) # NoChannel
        /\ MountedChannel(appState', currentChannel') # NoChannel
        /\ currentChannel' # currentChannel)
         => /\ HasOp(ops', {"clearSrc"})
            /\ HasOp(ops', SetupOps) \/ error' = "Player Setup Failed"
            /\ error' \in {NoError, "Player Setup Failed"}
            /\ isRemoving' <=> error' = "Player Setup Failed"]_vars

\* C7: an HLS error event that is not flagged fatal changes nothing: no
\* application or player state, no timeout, and no adapter or media
\* operation is performed and no callback made.
C7_NonFatalHlsErrorIgnored ==
    [][(\E type \in HlsErrorTypes : HlsError(FALSE, type))
         => /\ UNCHANGED <<appVars, env, playerVars, timer, keyNav, mediaVars,
                           emitted>>
            /\ ops' = <<>>
            /\ callback' = NoCallback]_vars

\* An active HLS session in which the last step performed no operation.
C7_Witness ==
    /\ Mounted
    /\ hlsRef.st = "attached"
    /\ ~isRemoving
    /\ error = NoError
    /\ ops = <<>>
    /\ callback = NoCallback

\* C8: in every pending-removal state no handle of the player holds an
\* engine.
C8_PendingMeansDestroyed ==
    isRemoving => (hlsRef = NoInst /\ dashRef = NoInst /\ mpegtsRef = NoInst)

\* C9: the number of recovery calls made on the HLS engine of a session stays
\* below the number up to which they are counted.
C9_RecoveryBounded == hlsRef.recov < MaxRecoveries

\* C10: teardown is idempotent. Running destroyPlayers a second time right
\* after a first performs no engine call and gives the state the first one
\* gave; after one run every handle is null and the element has no source;
\* and no step ever calls destroy on an engine that is not alive.
C10_TeardownIdempotent ==
    LET once == DestroyPlayers(World, TRUE)
        twice == DestroyPlayers([once EXCEPT !.ops = <<>>], TRUE)
    IN  /\ [twice EXCEPT !.ops = <<>>] = [once EXCEPT !.ops = <<>>]
        /\ \A k \in DOMAIN twice.ops : twice.ops[k].op # "destroy"
        /\ once.hlsRef = NoInst /\ once.dashRef = NoInst /\ once.mpegtsRef = NoInst
        /\ ~once.videoSrc
        /\ \A k \in DOMAIN ops : ops[k].op = "destroy" => ops[k].live

\* A step in which teardown ran twice in a row (effect cleanup, then the
\* effect body) over a session that held an engine.
C10_Witness ==
    \E i, j, k \in DOMAIN ops :
        /\ i < j
        /\ j < k
        /\ ops[i].op = "destroy"
        /\ ops[j].op = "clearSrc"
        /\ ops[k].op = "clearSrc"
        /\ Cardinality({n \in DOMAIN ops : ops[n].op = "destroy"}) = 1

(* ----------------- the protocol classifier on its own ------------------ *)
\* One evaluation of the URL tests and of the branch conditions of the setup
\* effect, for a URL built from a padding, a stem, an extension and a query
\* string, in every combination of the three capability flags.

Protocols == {"DASH", "MPEG_TS_FLV", "HLS", "NATIVE"}

ProbePads == {<<>>, <<" ">>}

ProbeExts ==
    {<<>>,
     <<".", "m", "p", "d">>, <<".", "M", "P", "D">>, <<".", "M", "p", "d">>,
     <<".", "f", "l", "v">>, <<".", "t", "s">>, <<".", "T", "S">>,
     <<".", "m", "3", "u", "8">>, <<".", "M", "3", "U", "8">>,
     <<".", "m", "p", "4">>}

ProbeQueries ==
    {<<>>,
     <<"?">>,
     <<"?", "t", "o", "k", "e", "n", "=", "1">>,
     <<"?", "f", "=", "x", ".", "m", "3", "u", "8">>,
     <<"?", "f", "=", "x", ".", "t", "s", "?", "y">>}

ProbeUrl(pad, ext, query) == pad \o <<"h", "/", "a">> \o ext \o query \o pad

ClassifyInit ==
    /\ SessionInit
    /\ env \in Envs
    /\ \E pad \in ProbePads, ext \in ProbeExts, query \in ProbeQueries :
          urlProbe = [pad |-> pad, ext |-> ext, query |-> query,
                      url |-> ProbeUrl(pad, ext, query)]
    /\ protocol = "none"
    /\ ParseIdle
    /\ HealthIdle
    /\ AudioIdle

\* the setup effect evaluates the URL tests and takes a branch
ClassifyUrl ==
    /\ protocol' = Classify(urlProbe.url, env)
    /\ UNCHANGED <<sessionVars, env, urlProbe, parseVars, healthVars, audioVars>>

ClassifyNext == ClassifyUrl

ClassifySpec == ClassifyInit /\ [][ClassifyNext]_vars

C29_FirstMatchOrder ==
    [][LET ext == ToLowerCase(urlProbe.ext)
           mpd == <<".", "m", "p", "d">>
           segmented == {<<".", "f", "l", "v">>, <<".", "t", "s">>}
           m3u8 == <<".", "m", "3", "u", "8">>
       IN  /\ ext = mpd => protocol' = "DASH"
           /\ ext \in segmented =>
                 protocol' = IF env.mse THEN "MPEG_TS_FLV" ELSE "NATIVE"
           /\ ext = m3u8 =>
                 protocol' = IF env.hls THEN "HLS" ELSE "NATIVE"
           /\ ext \notin ({mpd, m3u8} \cup segmented) =>
                 protocol' = IF env.hls /\ ~env.nativeHls THEN "HLS" ELSE "NATIVE"
           /\ protocol' = "MPEG_TS_FLV" => env.mse
           /\ protocol' = "HLS" => env.hls]_vars

\* `.TS` has been classified as NATIVE where the HLS engine is available,
\* the element cannot play HLS itself and MSE live playback is missing.
C29_Witness ==
    /\ urlProbe.ext = <<".", "T", "S">>
    /\ env = [mse |-> FALSE, hls |-> TRUE, nativeHls |-> FALSE]
    /\ protocol = "NATIVE"

(* ---------------------- the parser, line by line ----------------------- *)

\* one iteration of lines.forEach
ParseLine ==
    /\ parser.status = "running"
    /\ parser.index < Len(parser.lines)
    /\ \E now \in parser.now..Min({parser.now + 1, MaxElapsedMs}) :
           /\ now = parser.now \/ IsUrlLine(Trim(parser.lines[parser.index + 1]))
           /\ parser' = ForEachBody(parser, now)
    /\ UNCHANGED <<sessionVars, env, classifyVars, healthVars, audioVars>>

\* the forEach is over: sort, unshift and return
ParseReturn ==
    /\ parser.status = "running"
    /\ parser.index = Len(parser.lines)
    /\ parser' = Finish(parser)
    /\ UNCHANGED <<sessionVars, env, classifyVars, healthVars, audioVars>>

ParseNext == ParseLine \/ ParseReturn

\* the playlist texts of at most MaxLines lines drawn from a set of lines
TextsOver(catalogue) ==
    {Join(ls) : ls \in UNION {[1..n -> catalogue] : n \in 0..MaxLines}}

ParseInitOver(catalogue) ==
    /\ SessionInit
    /\ env = [mse |-> TRUE, hls |-> TRUE, nativeHls |-> FALSE]
    /\ ClassifyIdle
    /\ HealthIdle
    /\ AudioIdle
    /\ \E content \in TextsOver(catalogue) : parser = StartParse(content)

StructureLines ==
    {BlankLine, CommentLine, UrlOne, UrlTwo, ExtinfNews, ExtinfNoGroup,
     ExtinfEmptyGroup, ExtinfNoName}

ParseInit == ParseInitOver(StructureLines)

ParseSpec == ParseInit /\ [][ParseNext]_vars

DrmLines ==
    {UrlOne, ExtinfMalformed, PropLicenseType, PropKeyPlain, PropKeyHeaders,
     PropKeyBadEscape, PropKeyOddSegments, PropNoEquals, PropUserAgent,
     PropReferrer}

ParseDrmInit == ParseInitOver(DrmLines)

ParseDrmSpec == ParseDrmInit /\ [][ParseNext]_vars

(* ------------------------- parser properties --------------------------- *)

\* the trimmed URL lines of a text, in order
UrlLinesOf(lines) ==
    LET trimmed == [i \in 1..Len(lines) |-> Trim(lines[i])]
    IN  SelectSeq(trimmed, IsUrlLine)

\* every URL line is immediately preceded by an #EXTINF: line
EachUrlHasExtinf(lines) ==
    \A i \in 1..Len(lines) :
        IsUrlLine(Trim(lines[i])) =>
            i > 1 /\ StartsWith(Trim(lines[i - 1]), ExtinfPrefix)

Returned == parser # NoParser /\ parser.status = "returned"

\* C12: a playlist whose N URL lines are each immediately preceded by an
\* EXTINF line parses to exactly N channels, in the order of the URL lines,
\* with pairwise distinct ids.
C12_OneChannelPerUrlLine ==
    Returned /\ EachUrlHasExtinf(parser.lines) =>
        LET urls == UrlLinesOf(parser.lines)
            chs == parser.channels
        IN  /\ Len(chs) = Len(urls)
            /\ \A k \in 1..Len(chs) : chs[k].url = urls[k]
            /\ \A j, k \in 1..Len(chs) : j # k => chs[j].id # chs[k].id

C12_Witness ==
    /\ Returned
    /\ parser.lines = <<ExtinfNews, UrlTwo, ExtinfNoGroup, UrlOne>>
    /\ parser.now = 0
    /\ Len(parser.channels) = 2
    /\ parser.channels[1].url = UrlTwo

\* the names of a category list, in order
CategoryNames(cats) == [i \in 1..Len(cats) |-> cats[i].name]

\* the groups of the channels of a list
GroupsOf(chs) == {chs[k].group : k \in 1..Len(chs)}

\* C13: the returned category list is "All Channels" followed by the sorted
\* distinct groups of the returned channels, no more and no less.
C13_CategoriesAreChannelGroups ==
    Returned =>
        CategoryNames(parser.categories) =
            <<AllChannelsName>> \o SortSet(GroupsOf(parser.channels))

\* the lines.forEach callback took the URL branch for line i (counted from 1)
UrlAt(lines, i) == IsUrlLine(Trim(lines[i]))

\* line i is a #KODIPROP: line
PropAt(lines, i) == StartsWith(Trim(lines[i]), KodipropPrefix)

\* the position in the output of the channel of URL line i
ChannelOfLine(lines, i) == Cardinality({j \in 1..i : UrlAt(lines, j)})

HasDrm(ch) == ch.drm.type # Undefined

\* URL line i follows an earlier URL line with no property line in between
FollowsUrlWithoutProps(lines, i) ==
    \E j \in 1..(i - 1) :
        /\ UrlAt(lines, j)
        /\ \A m \in (j + 1)..(i - 1) : ~PropAt(lines, m)

\* C14: after any URL line both accumulators are empty, and the channel of a
\* URL line that follows another URL line with no property line in between
\* has no DRM, no user-agent and no referrer.
C14_PropertiesAttachOnce ==
    parser.status \in {"running", "returned"} =>
        /\ parser.index > 0 /\ UrlAt(parser.lines, parser.index) =>
              /\ DOMAIN parser.currentProps = {}
              /\ parser.currentChannel = EmptyChannel
        /\ \A i \in 2..parser.index :
              UrlAt(parser.lines, i) /\ FollowsUrlWithoutProps(parser.lines, i) =>
                  LET ch == parser.channels[ChannelOfLine(parser.lines, i)]
                  IN  /\ ~HasDrm(ch)
                      /\ ch.userAgent = Undefined
                      /\ ch.referrer = Undefined

C14_Witness ==
    /\ Returned
    /\ parser.lines = <<PropLicenseType, PropKeyPlain, UrlOne, UrlOne>>
    /\ HasDrm(parser.channels[1])
    /\ ~HasDrm(parser.channels[2])

\* C15: parse never throws: every text gets a (channels, categories) result.
C15_ParseNeverThrows == parser.status # "threw"

\* the #EXTINF: line whose metadata is pending at URL line i: the last one
\* after the previous URL line, 0 when there is none
PendingExtinf(lines, i) ==
    LET c == {j \in 1..(i - 1) :
                 /\ StartsWith(Trim(lines[j]), ExtinfPrefix)
                 /\ \A m \in (j + 1)..(i - 1) : ~UrlAt(lines, m)}
    IN  IF c = {} THEN 0 ELSE Max(c)

\* the text after the final comma of an #EXTINF: line, trimmed
NameText(line) ==
    LET parts == Split(Substring(Trim(line), 8), ",")
    IN  Trim(parts[Len(parts)])

\* the group-title of an #EXTINF: line, Undefined without the attribute
GroupText(line) == MatchAttr(Substring(Trim(line), 8), GroupTitleAttr)

\* C16: a channel with a missing name (no EXTINF before its URL line, or an
\* EXTINF with empty text after the final comma) is named `Channel N`, N its
\* 1-based position in the output; a channel with no or an empty group-title
\* has group Uncategorized.
C16_Fallbacks ==
    Returned =>
        \A i \in 1..Len(parser.lines) :
            UrlAt(parser.lines, i) =>
                LET n == ChannelOfLine(parser.lines, i)
                    ch == parser.channels[n]
                    j == PendingExtinf(parser.lines, i)
                IN  /\ j = 0 \/ NameText(parser.lines[j]) = <<>> =>
                          ch.name = ChannelPrefix \o <<ToString(n)>>
                    /\ j = 0 \/ ~Truthy(GroupText(parser.lines[j])) =>
                          ch.group = Uncategorized

\* the next forEach iteration takes the URL branch
AtUrlLine ==
    /\ parser.status = "running"
    /\ parser.index < Len(parser.lines)
    /\ UrlAt(parser.lines, parser.index + 1)

\* the name/value pairs of an ampersand-delimited, equals-delimited string,
\* values URL-decoded: name before the first '=', value after it
PairsOf(part) ==
    LET segs == Split(part, "&")
        with == {n \in 1..Len(segs) : Includes(segs[n], "=")}
        nameOf(n) == SubstringTo(segs[n], 0, IndexOf(segs[n], "="))
        valueOf(n) ==
            DecodeURIComponent(Substring(segs[n], IndexOf(segs[n], "=") + 1))
    IN  [k \in {nameOf(n) : n \in with} |->
            valueOf(Max({n \in with : nameOf(n) = k}))]

SameMap(f, g) == DOMAIN f = DOMAIN g /\ \A k \in DOMAIN f : f[k] = g[k]

\* C17: a channel carries DRM iff a license type and a license key are both
\* pending at its URL line; the license URL is the key's part before the
\* pipe and the headers are exactly the decoded name/value pairs of the part
\* after it, none when there is no pipe.
C17_DrmExtraction ==
    [][AtUrlLine =>
          LET props == parser.currentProps
              both == {LicenseTypeKey, LicenseKeyKey} \subseteq DOMAIN props
          IN  /\ parser'.status = "running"
              /\ Len(parser'.channels) = Len(parser.channels) + 1
              /\ LET ch == parser'.channels[Len(parser'.channels)]
                 IN  /\ HasDrm(ch) <=> both
                     /\ both =>
                           LET key == props[LicenseKeyKey]
                               pipe == IndexOf(key, "|")
                           IN  /\ ch.drm.type = props[LicenseTypeKey]
                               /\ ch.drm.licenseUrl =
                                     IF pipe = -1 THEN key
                                     ELSE SubstringTo(key, 0, pipe)
                               /\ SameMap(ch.drm.headers,
                                          IF pipe = -1 THEN EmptyMap
                                          ELSE PairsOf(Substring(key, pipe + 1)))
      ]_vars

(* ------------------------ loadPlaylist properties ---------------------- *)

\* the texts without a URL line: empty, or comments and metadata only
ZeroChannelTexts ==
    {content \in PlaylistTexts : UrlLinesOf(Split(content, "\n")) = <<>>}

\* C18: loading a text that yields zero channels is reported as a failure
\* and commits nothing: the state does not become BROWSING and channels,
\* categories and current channel stay what they were.
C18_EmptyLoadCommitsNothing ==
    [][\A content \in ZeroChannelTexts :
          LoadPlaylist(content) =>
              /\ HasOp(ops', {"alert"})
              /\ appState' # "BROWSING"
              /\ channels' = channels
              /\ categories' = categories
              /\ currentChannel' = currentChannel]_vars

\* a failed load over a playlist loaded and browsed before
C18_Witness ==
    /\ HasOp(ops, {"alert"})
    /\ appState = "SETUP"
    /\ Len(channels) > 0
    /\ selectedCategory # "all"

(* ---------------------- the health monitor on its own ------------------ *)
\* checkHealth on one reading of the media element. Times are counted in
\* tenths of a second.

\* Most buffered ranges in one reading.
MaxRanges == 2

Second == 10

\* HTMLMediaElement.HAVE_FUTURE_DATA
HaveFutureData == 3

ReadyStates == 0..4

\* playback positions: 9 s, 10 s, 10.5 s, 12 s
Positions == {90, 100, 105, 120}

\* range boundaries: 0 s, 10 s, 10.5 s, 11.9 s, 12 s, 14.9 s, 15 s, 20 s
BufferTimes == {0, 100, 105, 119, 120, 149, 150, 200}

\* video.buffered is normalised: the ranges are not empty, ascending and
\* apart from each other
Normalised(b) ==
    /\ \A i \in 1..Len(b) : b[i].start < b[i].end
    /\ \A i \in 1..(Len(b) - 1) : b[i].end < b[i + 1].start

TimeRanges ==
    {b \in UNION {[1..n -> [start : BufferTimes, end : BufferTimes]] :
                     n \in 0..MaxRanges} : Normalised(b)}

\* the lead taken from the last range, covering or not
BufferLeadOfLastRange(v) ==
    IF v.buffered = <<>> THEN 0
    ELSE Max({0, v.buffered[Len(v.buffered)].end - v.currentTime})

\* bufferLead: the loop over video.buffered and Math.max(0, ...)
BufferLead(v) ==
    LET covering == {i \in 1..Len(v.buffered) :
                        /\ v.buffered[i].start <= v.currentTime
                        /\ v.buffered[i].end >= v.currentTime}
        bufferEnd == IF covering = {} THEN 0
                     ELSE v.buffered[Min(covering)].end
    IN  Max({0, bufferEnd - v.currentTime})

\* status and color for a lead
Grade(bufferLead) ==
    IF bufferLead < 2 * Second
    THEN [status |-> "poor", bufferLead |-> bufferLead, color |-> "text-red-400"]
    ELSE IF bufferLead < 5 * Second
    THEN [status |-> "fair", bufferLead |-> bufferLead,
          color |-> "text-yellow-400"]
    ELSE [status |-> "good", bufferLead |-> bufferLead,
          color |-> "text-green-400"]

\* checkHealth with the ready state tested before the error
CheckHealthReadyStateFirst(v, m) ==
    IF ~v.attached THEN m
    ELSE IF v.readyState < HaveFutureData
    THEN [status |-> "buffering", bufferLead |-> 0, color |-> "text-yellow-400"]
    ELSE IF v.error \/ v.isRemoving
    THEN [status |-> "offline", bufferLead |-> 0, color |-> "text-red-500"]
    ELSE Grade(BufferLead(v))

\* checkHealth: the metrics after a sample of v, m the metrics before it
CheckHealth(v, m) ==
    IF ~v.attached THEN m
    ELSE IF v.error \/ v.isRemoving
    THEN [status |-> "offline", bufferLead |-> 0, color |-> "text-red-500"]
    ELSE IF v.readyState < HaveFutureData
    THEN [status |-> "buffering", bufferLead |-> 0, color |-> "text-yellow-400"]
    ELSE Grade(BufferLead(v))

HealthInit ==
    /\ SessionInit
    /\ env = [mse |-> TRUE, hls |-> TRUE, nativeHls |-> FALSE]
    /\ ClassifyIdle
    /\ ParseIdle
    /\ metrics = InitialMetrics
    /\ AudioIdle
    /\ \/ video = NoVideo
       \/ \E e, r \in BOOLEAN, rs \in ReadyStates, t \in Positions,
             b \in TimeRanges :
             video = [attached |-> TRUE, taken |-> FALSE, error |-> e,
                      isRemoving |-> r, readyState |-> rs, currentTime |-> t,
                      buffered |-> b]

\* the interval fires
CheckHealthTick ==
    /\ metrics' = CheckHealth(video, metrics)
    /\ video' = [video EXCEPT !.taken = TRUE]
    /\ UNCHANGED <<sessionVars, env, classifyVars, parseVars, audioVars>>

HealthNext == CheckHealthTick

HealthSpec == HealthInit /\ [][HealthNext]_vars

\* the reading has been sampled
Sampled == video.attached /\ video.taken

Dead == video.error \/ video.isRemoving

\* C19: a sample is offline with lead 0 when the element reports an error or
\* the session is pending removal, whatever the buffer; otherwise buffering
\* with lead 0 when the ready state is insufficient; otherwise poor below
\* 2 s of lead, fair from 2 s to below 5 s, good from 5 s.
C19_HealthPrecedence ==
    Sampled =>
        /\ Dead => metrics.status = "offline" /\ metrics.bufferLead = 0
        /\ ~Dead /\ video.readyState < HaveFutureData =>
              metrics.status = "buffering" /\ metrics.bufferLead = 0
        /\ ~Dead /\ video.readyState >= HaveFutureData =>
              /\ metrics.bufferLead < 2 * Second => metrics.status = "poor"
              /\ metrics.bufferLead >= 2 * Second /\ metrics.bufferLead < 5 * Second
                    => metrics.status = "fair"
              /\ metrics.bufferLead >= 5 * Second => metrics.status = "good"

\* pending removal over a playable element with 8 s of buffer ahead
C19_Witness ==
    /\ Sampled
    /\ ~video.error
    /\ video.isRemoving
    /\ video.readyState = 4
    /\ video.currentTime = 120
    /\ video.buffered = <<[start |-> 0, end |-> 200]>>
    /\ metrics.status = "offline"

\* the ranges [start, end) that contain the playback position
Containing(v) ==
    {i \in 1..Len(v.buffered) :
        v.buffered[i].start <= v.currentTime /\ v.currentTime < v.buffered[i].end}

\* C20: the lead is the end of the buffered range containing the position
\* minus the position, 0 when no range contains it, and never negative;
\* {[10, 10.5)} at 9 s gives lead 0 and poor, {[0, 20)} at 12 s gives lead
\* 8 s and good.
C20_BufferLead ==
    Sampled /\ ~Dead /\ video.readyState >= HaveFutureData =>
        /\ metrics.bufferLead >= 0
        /\ Containing(video) = {} => metrics.bufferLead = 0
        /\ \A i \in Containing(video) :
              metrics.bufferLead = video.buffered[i].end - video.currentTime
        /\ video.currentTime = 90
              /\ video.buffered = <<[start |-> 100, end |-> 105]>>
              => metrics.bufferLead = 0 /\ metrics.status = "poor"
        /\ video.currentTime = 120
              /\ video.buffered = <<[start |-> 0, end |-> 200]>>
              => metrics.bufferLead = 8 * Second /\ metrics.status = "good"

C20_Witness ==
    /\ Sampled
    /\ ~Dead
    /\ video.readyState = 3
    /\ video.currentTime = 90
    /\ video.buffered = <<[start |-> 100, end |-> 105]>>
    /\ metrics.status = "poor"
    /\ metrics.bufferLead = 0

(* ------------------- the health monitor in the player ------------------ *)
\* The session with the sampling interval running over one reading of the
\* media element.

\* Readings of the element: playable with 8 s buffered ahead, short of data,
\* and reporting an error.
MonitorReadings ==
    {[attached |-> TRUE, taken |-> FALSE, error |-> e, isRemoving |-> FALSE,
      readyState |-> rs, currentTime |-> 120,
      buffered |-> <<[start |-> 0, end |-> 200]>>] :
        e \in BOOLEAN, rs \in {2, 4}} \ 
    {[attached |-> TRUE, taken |-> FALSE, error |-> TRUE, isRemoving |-> FALSE,
      readyState |-> 2, currentTime |-> 120,
      buffered |-> <<[start |-> 0, end |-> 200]>>]}

\* what checkHealth samples: the element, and the isRemoving of the render
\* that started the interval
Reading == [video EXCEPT !.isRemoving = isRemoving]

\* Faulty variant of the interval callback: an offline reading is escalated
\* to a fatal verdict.
HealthSampleEscalating ==
    /\ Mounted
    /\ UNCHANGED appVars
    /\ \E m \in {CheckHealth(Reading, metrics)} :
          /\ metrics' = m
          /\ RenderPlayer(IF m.status = "offline"
                          THEN HandleFatalError(World, "Channel Offline")
                          ELSE World,
                          timer, NoCallback)
    /\ UNCHANGED <<classifyVars, parseVars, video, audioVars>>

\* the interval fires in a mounted player: checkHealth, then the re-render
\* its setMetrics causes
HealthSample ==
    /\ Mounted
    /\ UNCHANGED appVars
    /\ metrics' = CheckHealth(Reading, metrics)
    /\ RenderPlayer(World, timer, NoCallback)
    /\ UNCHANGED <<classifyVars, parseVars, video, audioVars>>

MonitorInit ==
    /\ SessionInit
    /\ env \in PlayerEnvs
    /\ ClassifyIdle
    /\ ParseIdle
    /\ metrics = InitialMetrics
    /\ AudioIdle
    /\ video \in MonitorReadings

\* The viewer selects channels, steps to the next one and goes back; the
\* engines and the element report errors; the timeout and the interval run.
MonitorNext ==
    \/ \E content \in PlaylistTexts : LoadPlaylist(content)
    \/ \E c \in ChannelIds : HandleChannelSelect(c)
    \/ HandleBackFromPlayer
    \/ HandleNextChannel
    \/ Tick
    \/ TimerFire
    \/ DashError
    \/ \E type \in MpegtsErrorTypes : MpegtsError(type)
    \/ \E fatal \in BOOLEAN, type \in HlsErrorTypes : HlsError(fatal, type)
    \/ VideoError
    \/ \E name \in PlayErrorNames : PlayRejected(name)
    \/ HealthSample

MonitorSpec == MonitorInit /\ [][MonitorNext]_vars

\* C21: a health sample changes nothing but the health reading: not the
\* pending flag, the recorded error, the handles and their engines, the
\* element's source and handler, the timeout, the current channel or the
\* channel list; it performs no adapter or media operation and makes no
\* callback.
C21_HealthSampleObservesOnly ==
    [][HealthSample =>
          /\ UNCHANGED <<appVars, playerVars, mediaVars, timer, keyNav, emitted>>
          /\ ops' = <<>>
          /\ callback' = NoCallback]_vars

\* an offline reading taken over a live session whose element reports an
\* error
C21_Witness ==
    /\ Mounted
    /\ metrics.status = "offline"
    /\ video.error
    /\ ~isRemoving
    /\ error = NoError
    /\ AttachedCount = 1

(* ------------------------ play rejection properties -------------------- *)

\* C22: for every backend a play rejection named NotAllowedError leaves the
\* player paused (playing flag false) and raises no fatal verdict.
C22_NotAllowedPauses ==
    [][PlayRejected("NotAllowedError") =>
          /\ ~isPlaying'
          /\ isRemoving' = isRemoving
          /\ error' = error]_vars

(* ------------------------ setup failure properties --------------------- *)

\* C23: when the setup effect's try block throws (before or after an engine
\* was constructed) the session gets the verdict "Player Setup Failed", is
\* put in pending removal and has a timeout of the full delay armed for the
\* channel being set up; the callback for such a session is invoked only by
\* a timeout that ran its whole delay, and once.
C23_SetupFailureIsFatal ==
    [][LET old == MountedChannel(appState, currentChannel)
           new == MountedChannel(appState', currentChannel')
       IN  /\ (SetupRuns(old, new) /\ error' # NoError) =>
                 /\ error' = "Player Setup Failed"
                 /\ isRemoving'
                 /\ timer' = Armed(new)
           /\ (leaked' /\ ~leaked) =>
                 /\ SetupRuns(old, new)
                 /\ error' = "Player Setup Failed"
           /\ (callback'.id # NoChannel
                 /\ callback'.reason = "Player Setup Failed") =>
                 /\ timer.armed
                 /\ timer.left = 0
                 /\ isRemoving
                 /\ callback'.id = timer.id
                 /\ callback'.nth = 1]_vars

\* The callback has just been invoked for a session whose setup threw.
C23_Witness ==
    /\ callback.id # NoChannel
    /\ callback.reason = "Player Setup Failed"
    /\ emitted = 1

\* C24: every engine constructed during a session, one whose setup threw
\* after construction included, has been destroyed once the player is
\* unmounted: no engine is then alive, with or without a handle.
C24_NoAdapterOutlivesPlayer ==
    ~Mounted => (~leaked /\ AttachedCount = 0)

(* ------------------------ fatal verdict properties --------------------- *)

\* C25: handlers of earlier sessions are inactive after teardown: the media
\* element's error event raises the verdict "Format not supported or
\* offline" only in a native session, never while an HLS, DASH or TS/FLV
\* engine is the session's backend.
C25_VideoErrorOnlyInNativeSession ==
    [][(/\ SessionBackend \in {"hls", "dash", "mpegts"}
        /\ error # "Format not supported or offline")
          => error' # "Format not supported or offline"]_vars

\* C26: a fatal HLS error of the network type is answered by startLoad and
\* one of the media type by recoverMediaError, on the session's engine,
\* which stays attached, and neither raises a verdict or touches the
\* timeout; a fatal error of any other type destroys the engine and raises
\* "Stream Connection Failed" with pending removal.
C26_HlsFatalByType ==
    [][/\ HlsError(TRUE, "networkError") =>
             /\ ops' = <<Op("startLoad", "hls", TRUE)>>
             /\ hlsRef' = [hlsRef EXCEPT !.recov = @ + 1]
             /\ hlsRef'.st = "attached"
             /\ UNCHANGED <<error, isRemoving, timer>>
       /\ HlsError(TRUE, "mediaError") =>
             /\ ops' = <<Op("recoverMediaError", "hls", TRUE)>>
             /\ hlsRef' = [hlsRef EXCEPT !.recov = @ + 1]
             /\ hlsRef'.st = "attached"
             /\ UNCHANGED <<error, isRemoving, timer>>
       /\ HlsError(TRUE, "otherError") =>
             /\ HasOp(ops', {"destroy"})
             /\ hlsRef' = NoInst
             /\ error' = "Stream Connection Failed"
             /\ isRemoving']_vars

\* An HLS session that recovered from a fatal media error and goes on.
C26_Witness ==
    /\ Mounted
    /\ ops = <<Op("recoverMediaError", "hls", TRUE)>>
    /\ hlsRef.st = "attached"
    /\ hlsRef.recov > 0
    /\ error = NoError
    /\ ~isRemoving

\* C27: of the TS/FLV engine's errors only the network type raises a verdict
\* ("Network Error", pending removal); an error of any other type changes
\* nothing: not the pending flag, the error shown, the engine or the timeout.
C27_MpegtsOnlyNetworkFatal ==
    [][/\ MpegtsError("NetworkError") =>
             /\ error' = "Network Error"
             /\ isRemoving'
       /\ (\E type \in MpegtsErrorTypes \ {"NetworkError"} : MpegtsError(type)) =>
             /\ UNCHANGED <<appVars, playerVars, mediaVars, timer, emitted>>
             /\ ops' = <<>>
             /\ callback' = NoCallback]_vars

\* A TS/FLV session in which the last step changed nothing and whose engine
\* plays on.
C27_Witness ==
    /\ Mounted
    /\ mpegtsRef.st = "attached"
    /\ ops = <<>>
    /\ error = NoError
    /\ ~isRemoving
    /\ ~timer.armed

\* C28: in a native session the media element's error event at once raises
\* "Format not supported or offline" with pending removal and, unless the
\* session was pending already, a timeout of the full delay for the current
\* channel; nothing is done to recover (no operation on the element, its
\* source kept); the callback for that verdict comes only from a timeout
\* that ran its whole delay.
C28_NativeErrorIsFatal ==
    [][/\ (VideoError /\ SessionBackend = "native") =>
             /\ error' = "Format not supported or offline"
             /\ isRemoving'
             /\ ~isRemoving => timer' = Armed(currentChannel)
             /\ ops' = <<>>
             /\ UNCHANGED <<appVars, mediaVars, hlsRef, dashRef, mpegtsRef>>
       /\ (callback'.id # NoChannel
             /\ callback'.reason = "Format not supported or offline") =>
             /\ timer.armed
             /\ timer.left = 0
             /\ isRemoving
             /\ callback'.id = timer.id]_vars

\* The callback has just been invoked for a natively played channel whose
\* media element reported an error.
C28_Witness ==
    /\ callback.id # NoChannel
    /\ callback.reason = "Format not supported or offline"
    /\ ProtocolOf[env][callback.id] = "NATIVE"

(* ------------------------ channel removal properties ------------------- *)

\* C30: when the timeout delivers the channel-failed callback for channel c
\* and c is in the filtered list, c is removed from the channel list and
\* every other channel stays; if the filtered list held more than one channel
\* the current channel becomes the channel after c in the filtered list, the
\* first one if c was the last, which is not c and is in the channel list
\* after the removal, and the app keeps its state; otherwise the app goes to
\* BROWSING with no current channel.
C30_FailedChannelRemoved ==
    [][TimerFire =>
          LET c == timer.id
              list == FilteredChannels
              at == {i \in 1..Len(list) : list[i] = c}
              left == {channels'[k] : k \in 1..Len(channels')}
          IN  at # {} =>
                /\ left = {channels[k] : k \in 1..Len(channels)} \ {c}
                /\ IF Len(list) > 1
                   THEN LET i == CHOOSE i \in at : TRUE
                            successor == IF i = Len(list) THEN list[1]
                                         ELSE list[i + 1]
                        IN  /\ currentChannel' = successor
                            /\ successor # c
                            /\ successor \in left
                            /\ appState' = appState
                   ELSE /\ appState' = "BROWSING"
                        /\ currentChannel' = NoChannel]_vars

\* The callback has just removed the last channel of a filtered list of
\* several and the player has wrapped to the first one.
C30_Witness ==
    /\ callback.id # NoChannel
    /\ appState = "PLAYING"
    /\ currentChannel # NoChannel
    /\ currentChannel < callback.id
    /\ FilteredChannels # <<>>
    /\ currentChannel = FilteredChannels[1]
    /\ \A k \in 1..Len(channels) : channels[k] # callback.id

(* --------------------------- channel list frame ------------------------ *)

\* C31: the channel list changes only in a successful playlist load, which
\* replaces it whole, and in the delivery of the channel-failed callback,
\* which takes out exactly the channel the callback names and keeps the
\* others in their order; no other step (selecting, next, previous, back,
\* category change, opening the setup, a failed load, an engine or element
\* event) changes the list.
C31_ChannelListFrame ==
    [][/\ channels' # channels =>
             \/ /\ appState = "SETUP"
                /\ appState' = "BROWSING"
                /\ callback' = NoCallback
                /\ channels' = AllChannels
             \/ /\ callback'.id # NoChannel
                /\ \E k \in 1..Len(channels) :
                      /\ channels[k] = callback'.id
                      /\ channels' = SubSeq(channels, 1, k - 1)
                                       \o SubSeq(channels, k + 1, Len(channels))]_vars

\* The callback has just taken a channel out of the middle of the list: the
\* channels before and after it are still there, in order.
C31_Witness ==
    /\ callback.id # NoChannel
    /\ Len(channels) = NumChannels - 1
    /\ channels[1] < callback.id
    /\ callback.id < channels[Len(channels)]
    /\ \A k \in 1..(Len(channels) - 1) : channels[k] < channels[k + 1]

\* C32: no rejection of play() raises a verdict or tears an engine down, on
\* any backend and with any error name: an AbortError changes nothing at
\* all, and any other rejection leaves the pending flag, the error shown,
\* the three engine handles, the element's source and the timeout as they
\* were and performs no operation.
C32_PlayRejectionNeverFatal ==
    [][/\ PlayRejected("AbortError") =>
             /\ UNCHANGED <<appVars, playerVars, mediaVars, timer, keyNav,
                            emitted>>
             /\ ops' = <<>>
             /\ callback' = NoCallback
       /\ (\E name \in PlayErrorNames : PlayRejected(name)) =>
             /\ UNCHANGED <<isRemoving, error, hlsRef, dashRef, mpegtsRef,
                            mediaVars, timer, emitted>>
             /\ ops' = <<>>
             /\ callback' = NoCallback]_vars

\* An HLS session whose autoplay was rejected as not allowed: it is paused,
\* its engine still attached, with no verdict.
C32_Witness ==
    /\ Mounted
    /\ ~isPlaying
    /\ SessionBackend = "hls"
    /\ hlsRef.st = "attached"
    /\ error = NoError
    /\ ~isRemoving
    /\ ~timer.armed

(* ----------------------- volume control on its own --------------------- *)

\* Faulty variant of the ArrowUp updater: no upper clamp.
VolumeUpUnclamped(prev) == prev + KeyStep

\* prev => Math.min(1, prev + 0.1)
VolumeUp(prev) == IF prev + KeyStep < VolumeOne THEN prev + KeyStep ELSE VolumeOne

\* prev => Math.max(0, prev - 0.1)
VolumeDown(prev) == IF prev - KeyStep > 0 THEN prev - KeyStep ELSE 0

\* the values the range input (min 0, max 1, step 0.05) can report
SliderValues == {v \in 0..VolumeOne : v % SliderStep = 0}

\* The re-render after a volume handler that performed the operations done
\* and set (v, m): the effect with dependency list [volume, isMuted] writes
\* both to the media element and saves the volume when one of them changed.
RenderVolume(done, v, m) ==
    /\ volume' = v
    /\ isMuted' = m
    /\ ops' = IF v # volume \/ m # isMuted
              THEN Append(done, Op("setVolume", "video", TRUE))
              ELSE done
    /\ UNCHANGED <<appVars, playerVars, timer, keyNav, mediaVars, callback,
                   emitted, env, classifyVars, parseVars, healthVars>>

\* keydown ArrowUp
KeyArrowUp ==
    RenderVolume(<<Op("preventDefault", "event", TRUE)>>, VolumeUp(volume), FALSE)

\* keydown ArrowDown
KeyArrowDown ==
    RenderVolume(<<Op("preventDefault", "event", TRUE)>>, VolumeDown(volume), FALSE)

\* keydown m / M, or the speaker button
ToggleMute == RenderVolume(<<>>, volume, ~isMuted)

\* the range input changes
HandleVolumeChange(value) == RenderVolume(<<>>, value, FALSE)

\* The player starts with the saved volume, any value from 0 to 1, not muted.
VolumeInit ==
    /\ SessionInit
    /\ env = [mse |-> TRUE, hls |-> TRUE, nativeHls |-> FALSE]
    /\ ClassifyIdle
    /\ ParseIdle
    /\ HealthIdle
    /\ volume \in 0..VolumeOne
    /\ isMuted = FALSE

VolumeNext ==
    \/ KeyArrowUp
    \/ KeyArrowDown
    \/ ToggleMute
    \/ \E value \in SliderValues : HandleVolumeChange(value)

VolumeSpec == VolumeInit /\ [][VolumeNext]_vars

\* C33: from a volume between 0 and 1 every ArrowUp and ArrowDown press
\* leaves the volume between 0 and 1: ArrowUp adds a tenth but never passes
\* 1 and leaves a volume of 1 as it is, ArrowDown takes a tenth off but
\* never passes 0 and leaves a volume of 0 as it is; and every volume
\* change, by key or by slider, clears the muted flag.
C33_VolumeStaysInRange ==
    [][/\ volume' \in 0..VolumeOne
       /\ KeyArrowUp =>
             /\ volume' >= volume
             /\ volume' - volume <= KeyStep
             /\ volume' - volume < KeyStep => volume' = VolumeOne
             /\ ~isMuted'
       /\ KeyArrowDown =>
             /\ volume' <= volume
             /\ volume - volume' <= KeyStep
             /\ volume - volume' < KeyStep => volume' = 0
             /\ ~isMuted'
       /\ volume' # volume => ~isMuted']_vars

\* An ArrowUp press has just brought the element to full volume, unmuted,
\* from less than full volume or from muted.
C33_Witness ==
    /\ volume = VolumeOne
    /\ ~isMuted
    /\ ops = <<Op("preventDefault", "event", TRUE),
               Op("setVolume", "video", TRUE)>>

(* ------------------------- failover properties ------------------------- *)

\* C34: the callback reports a channel only for a verdict of that channel's
\* own session. The callback comes from the timeout armed for the mounted
\* channel, so: a channel never becomes current with a timeout already armed
\* to report it, unless its own setup ran and failed in that step.
C34_NoInheritedVerdict ==
    [][LET old == MountedChannel(appState, currentChannel)
           new == MountedChannel(appState', currentChannel')
       IN  (new # NoChannel /\ new # old /\ timer'.armed) =>
              /\ SetupRuns(old, new)
              /\ error' = "Player Setup Failed"]_vars

\* C35: whenever the app is PLAYING the current channel is in the channel
\* list: a channel removed by failover is never made current again by a next
\* or previous request.
C35_CurrentChannelListed ==
    appState = "PLAYING" =>
        \E k \in 1..Len(channels) : channels[k] = currentChannel

\* C36: an ArrowRight (ArrowLeft) press in the player makes current the
\* successor (predecessor), with wrap-around, of the channel that is current
\* at the press in the current filtered list, as the on-screen buttons do.
C36_KeysFollowCurrentChannel ==
    [][/\ KeyArrowRight =>
             currentChannel' = IF NextChannelOf(currentChannel, FilteredChannels) = NoChannel
                               THEN currentChannel
                               ELSE NextChannelOf(currentChannel, FilteredChannels)
       /\ KeyArrowLeft =>
             currentChannel' = IF PrevChannelOf(currentChannel, FilteredChannels) = NoChannel
                               THEN currentChannel
                               ELSE PrevChannelOf(currentChannel, FilteredChannels)]_vars

(* ------------------------------ liveness ------------------------------- *)

\* Time passes while a timeout is pending, and a timeout that is due over
\* and over does run: the browser runs a due setTimeout callback unless
\* clearTimeout comes first.
LiveSpec == Init /\ [][Next]_vars /\ WF_vars(Tick) /\ SF_vars(TimerFire)

\* C37: pending removal always resolves: a mounted player that is pending
\* removal is later either unmounted (the app back in BROWSING) or no longer
\* pending (another channel current with a fresh session).
C37_PendingResolves ==
    (Mounted /\ isRemoving) ~> (~Mounted \/ ~isRemoving)

(* --------------------------- App state invariant ----------------------- *)

====
